---- MODULE Spec2Model ----
(***************************************************************************)
(* A model of zarr-dump: the metadata model (src/src/metadata.rs), the     *)
(* format ingestors (src/src/store.rs), the CF checker (src/src/cf.rs) and *)
(* the cf-check command (src/src/main.rs).                                 *)
(*                                                                         *)
(* Strings that the code compares as wholes (names, attribute keys) are    *)
(* TLA+ strings.  A path string is the sequence of its '/'-separated       *)
(* segments, the value of path.split('/'): "grp/lat" is <<"grp", "lat">>   *)
(* and the empty path of the store root is <<"">>.                         *)
(***************************************************************************)
EXTENDS Integers, Sequences, FiniteSets, TLC

VARIABLES
    pc,       \* the control position of the run
    fs,       \* the store directory: file path -> content
    data,     \* the array-read collaborator: variable path -> answer
    md,       \* the ZarrMetadata being built or checked
    report,   \* the CfReport
    stdout,   \* the lines printed so far
    outcome,  \* how the run ended
    arg,      \* the arguments of the function under study
    ret       \* what it returned

vars == <<pc, fs, data, md, report, stdout, outcome, arg, ret>>

(***************************************************************************)
(* Bounds of the model.                                                    *)
(***************************************************************************)
\* The axis lengths of the bounded inputs are 0, 100, .., 100 * MaxSizeIndex
\* (0 is the growable-axis marker).
MaxSizeIndex == 2

SizeValues == {100 * k : k \in 0..MaxSizeIndex}

\* Variable paths the bounded inputs of the inference specification use.
InferPaths == {<<"temp1">>, <<"grp", "temp2">>}

(***************************************************************************)
(* AttributeValue (metadata.rs): a tagged value.  Every variant carries    *)
(* the same fields so that values of different variants can be compared.   *)
(***************************************************************************)
AVString(s) == [tag |-> "String", str |-> s, num |-> 0, items |-> <<>>]
AVInteger(n) == [tag |-> "Integer", str |-> "", num |-> n, items |-> <<>>]
AVNumber(n) == [tag |-> "Number", str |-> "", num |-> n, items |-> <<>>]
AVArray(xs) == [tag |-> "Array", str |-> "", num |-> 0, items |-> xs]
AVNull == [tag |-> "Null", str |-> "", num |-> 0, items |-> <<>>]

\* The empty map (HashMap::new()).
EmptyMap == << >>

HasKey(m, k) == k \in DOMAIN m

\* HashMap::insert: the value stored under k is replaced.
MapInsert(m, k, v) == [x \in (DOMAIN m) \cup {k} |-> IF x = k THEN v ELSE m[x]]

\* All the orders in which the entries of a HashMap with key set S may be
\* enumerated (the iteration order of a HashMap is unspecified).
Orders(S) ==
    {o \in [1..Cardinality(S) -> S] : \A i, j \in 1..Cardinality(S) : i # j => o[i] # o[j]}

\* format!("dim_{}", i)
DimDefault(i) == "dim_" \o ToString(i)

\* path.split('/').next_back()
LastSegment(path) == path[Len(path)]

\* ZarrMetadata::default()
NewMetadata ==
    [zarr_format |-> 2, global_attributes |-> EmptyMap, groups |-> EmptyMap,
     variables |-> EmptyMap, dimensions |-> EmptyMap,
     root_group |-> [name |-> "/", attributes |-> EmptyMap]]

\* The placeholder Dimension list every ingestor gives a new variable.
PlaceholderDimensions(shape) ==
    [i \in 1..Len(shape) |-> [name |-> DimDefault(i - 1), size |-> shape[i], is_unlimited |-> FALSE]]

(***************************************************************************)
(* Dimension inference (ZarrMetadata::infer_dimensions).                   *)
(***************************************************************************)
\* Variant: non-string entries keep their position (as an empty name).
extract_dimension_names_no_filter(variable) ==
    IF HasKey(variable.attributes, "_ARRAY_DIMENSIONS")
       /\ variable.attributes["_ARRAY_DIMENSIONS"].tag = "Array"
    THEN LET dims == variable.attributes["_ARRAY_DIMENSIONS"].items
         IN [i \in 1..Len(dims) |-> dims[i].str]
    ELSE [i \in 1..Len(variable.shape) |-> DimDefault(i - 1)]

extract_dimension_names(variable) ==
    IF HasKey(variable.attributes, "_ARRAY_DIMENSIONS")
       /\ variable.attributes["_ARRAY_DIMENSIONS"].tag = "Array"
    THEN LET dims == variable.attributes["_ARRAY_DIMENSIONS"].items
             strs == SelectSeq(dims, LAMBDA val : val.tag = "String")
         IN [i \in 1..Len(strs) |-> strs[i].str]
    ELSE [i \in 1..Len(variable.shape) |-> DimDefault(i - 1)]

\* dim_names.get(i).cloned().unwrap_or_else(|| format!("dim_{}", i)), i 1-based here.
AxisName(dim_names, i) ==
    IF i <= Len(dim_names) THEN dim_names[i] ELSE DimDefault(i - 1)

\* The inner loop of the first pass: the appearances of one variable.
RECURSIVE CollectAxes(_, _, _, _, _)
CollectAxes(dimension_map, var_path, variable, dim_names, i) ==
    IF i > Len(variable.shape) THEN dimension_map
    ELSE LET dim_name == AxisName(dim_names, i)
             entry == <<var_path, variable.shape[i]>>
             next == IF HasKey(dimension_map, dim_name)
                     THEN [dimension_map EXCEPT ![dim_name] = Append(@, entry)]
                     ELSE MapInsert(dimension_map, dim_name, <<entry>>)
         IN CollectAxes(next, var_path, variable, dim_names, i + 1)

\* The first pass: the variables are visited in the order `order`.
RECURSIVE CollectVariables(_, _, _, _)
CollectVariables(dimension_map, variables, order, k) ==
    IF k > Len(order) THEN dimension_map
    ELSE LET variable == variables[order[k]]
         IN CollectVariables(
                CollectAxes(dimension_map, order[k], variable,
                            extract_dimension_names(variable), 1),
                variables, order, k + 1)

SizesOf(appearances) == {appearances[i][2] : i \in 1..Len(appearances)}

\* Variant: the size of the first appearance.
max_size_first(appearances) ==
    IF appearances = <<>> THEN 0 ELSE appearances[1][2]

\* appearances.iter().map(|(_, size)| *size).max().unwrap_or(0)
max_size(appearances) ==
    IF appearances = <<>> THEN 0
    ELSE CHOOSE m \in SizesOf(appearances) : \A s \in SizesOf(appearances) : s <= m

\* Variant: the zero-size rule is left out.
is_unlimited_of_no_zero(appearances) ==
    Len(appearances) > 1 /\ Cardinality(SizesOf(appearances)) > 1

\* Variant: `||` in place of `&&`.
is_unlimited_of_or(appearances) ==
    LET unique_sizes == SizesOf(appearances)
        has_zero_size == \E i \in 1..Len(appearances) : appearances[i][2] = 0
    IN has_zero_size \/ (Len(appearances) > 1 \/ Cardinality(unique_sizes) > 1)

is_unlimited_of(appearances) ==
    LET unique_sizes == SizesOf(appearances)
        has_zero_size == \E i \in 1..Len(appearances) : appearances[i][2] = 0
    IN has_zero_size \/ (Len(appearances) > 1 /\ Cardinality(unique_sizes) > 1)

\* The second pass: one DimensionInfo per collected name, inserted into
\* self.dimensions (names already there and not collected again are kept).
BuildDimensions(dimensions, dimension_map) ==
    [d \in (DOMAIN dimensions) \cup (DOMAIN dimension_map) |->
        IF HasKey(dimension_map, d)
        THEN [name |-> d,
              max_length |-> max_size(dimension_map[d]),
              is_unlimited |-> is_unlimited_of(dimension_map[d]),
              appearances |-> dimension_map[d]]
        ELSE dimensions[d]]

\* Variant: the aggregate's max_length as the size of an entry.
RewriteDimensions_max_length(variable, dimensions) ==
    LET dim_names == extract_dimension_names(variable)
    IN [i \in 1..Len(variable.shape) |->
           LET dim_name == AxisName(dim_names, i)
           IN [name |-> dim_name,
               size |-> IF HasKey(dimensions, dim_name)
                        THEN dimensions[dim_name].max_length
                        ELSE variable.shape[i],
               is_unlimited |-> IF HasKey(dimensions, dim_name)
                                THEN dimensions[dim_name].is_unlimited
                                ELSE FALSE]]

\* The third pass: the Dimension list of one variable.
RewriteDimensions(variable, dimensions) ==
    LET dim_names == extract_dimension_names(variable)
    IN [i \in 1..Len(variable.shape) |->
           LET dim_name == AxisName(dim_names, i)
           IN [name |-> dim_name,
               size |-> variable.shape[i],
               is_unlimited |-> IF HasKey(dimensions, dim_name)
                                THEN dimensions[dim_name].is_unlimited
                                ELSE FALSE]]

\* infer_dimensions, the first pass visiting the variables in `order`.
infer_dimensions(m, order) ==
    LET dimension_map == CollectVariables(EmptyMap, m.variables, order, 1)
        dimensions == BuildDimensions(m.dimensions, dimension_map)
    IN [m EXCEPT
          !.dimensions = dimensions,
          !.variables = [p \in DOMAIN m.variables |->
                            [m.variables[p] EXCEPT
                               !.dimensions = RewriteDimensions(m.variables[p], dimensions)]]]

(***************************************************************************)
(* The store directory (store.rs).  A file is named by the directory names *)
(* leading to it from the store root followed by its file name; its        *)
(* content is what parsing it yields, or [kind |-> "malformed"].           *)
(***************************************************************************)
EmptyStore == << >>

Malformed == [kind |-> "malformed"]

\* path.exists() / fs::read succeeding
FileExists(st, file) == file \in DOMAIN st

\* serde_json::from_slice::<T> succeeds: the file holds a document of kind T.
Parses(st, file, kind) == FileExists(st, file) /\ st[file].kind = kind

\* The directories of the store, the root <<>> included.
Directories(st) == UNION {{SubSeq(f, 1, n) : n \in 0..(Len(f) - 1)} : f \in DOMAIN st}

\* read_dir: the names of the sub-directories of dir.
ChildDirs(st, dir) ==
    {d[Len(dir) + 1] : d \in {x \in Directories(st) :
                                Len(x) = Len(dir) + 1 /\ SubSeq(x, 1, Len(dir)) = dir}}

\* The path string of a directory: "" for the root, else the names joined by '/'.
PathOf(dir) == IF dir = <<>> THEN <<"">> ELSE dir

\* The directory of a path string (self.path.join(path)).
DirOf(path) == IF path = <<"">> THEN <<>> ELSE path

\* The name the scan and load_array_metadata give the variable at path.
NodeName(path, root_name) == IF path = <<"">> THEN root_name ELSE LastSegment(path)

\* An operation's Result: Ok(md) or Err(error); error.file is the path the
\* message names (error.names_file tells whether it names one).
Ok(m) == [ok |-> TRUE, md |-> m, error |-> [kind |-> "", names_file |-> FALSE, file |-> <<>>]]

Err(kind, names_file, file) ==
    [ok |-> FALSE, md |-> NewMetadata,
     error |-> [kind |-> kind, names_file |-> names_file, file |-> file]]

\* The outcomes of infer_dimensions over every enumeration order of the variables.
Inferred(m) == {infer_dimensions(m, order) : order \in Orders(DOMAIN m.variables)}

(***************************************************************************)
(* The per-node scan (load_hierarchical_metadata).                         *)
(***************************************************************************)
PlaceholderVariable(path) ==
    [name |-> NodeName(path, "root"), path |-> path, shape |-> <<>>,
     fill_value |-> <<>>, attributes |-> EmptyMap, dimensions |-> <<>>]

RECURSIVE scan_directory(_, _, _)
RECURSIVE scan_children(_, _, _, _)

scan_directory(st, metadata, dir) ==
    LET has_zgroup == FileExists(st, Append(dir, ".zgroup"))
        has_zarray == FileExists(st, Append(dir, ".zarray"))
        current_path == PathOf(dir)
        marked ==
            IF has_zarray
            THEN [metadata EXCEPT !.variables =
                     MapInsert(@, current_path, PlaceholderVariable(current_path))]
            ELSE IF has_zgroup
            THEN IF dir = <<>>
                 THEN [metadata EXCEPT !.root_group = [name |-> "/", attributes |-> EmptyMap]]
                 ELSE [metadata EXCEPT !.groups =
                          MapInsert(@, current_path,
                                    [name |-> LastSegment(current_path), path |-> current_path,
                                     attributes |-> EmptyMap])]
            ELSE metadata
    IN scan_children(st, marked, dir, ChildDirs(st, dir))

scan_children(st, metadata, dir, children) ==
    IF children = {} THEN metadata
    ELSE LET child == CHOOSE c \in children : TRUE
         IN scan_children(st, scan_directory(st, metadata, Append(dir, child)),
                          dir, children \ {child})

\* Load .zattrs (optional): a missing or unparsable file gives an empty map.
ReadAttrs(st, file) ==
    IF Parses(st, file, "attrs") THEN st[file].attributes ELSE EmptyMap

\* create_variable_from_zarray / load_array_metadata: the Variable of a descriptor.
VariableFromZarray(path, root_name, zarray, attributes) ==
    [name |-> NodeName(path, root_name), path |-> path, shape |-> zarray.shape,
     fill_value |-> zarray.fill_value, attributes |-> attributes,
     dimensions |-> PlaceholderDimensions(zarray.shape)]

\* load_array_metadata for the variable at path (its .zarray was seen by the scan).
load_array_metadata(st, metadata, path) ==
    LET zarray_path == Append(DirOf(path), ".zarray")
        zattrs_path == Append(DirOf(path), ".zattrs")
    IN IF ~FileExists(st, zarray_path) THEN Err("missing .zarray", TRUE, zarray_path)
       ELSE IF ~Parses(st, zarray_path, "zarray") THEN Err("invalid .zarray", TRUE, zarray_path)
       ELSE Ok([metadata EXCEPT !.variables =
                   MapInsert(@, path, VariableFromZarray(path, "root", st[zarray_path],
                                                         ReadAttrs(st, zattrs_path)))])

\* load_group_metadata for the group at path.
load_group_metadata(st, metadata, path) ==
    LET zgroup_path == Append(DirOf(path), ".zgroup")
        zattrs_path == Append(DirOf(path), ".zattrs")
    IN IF ~FileExists(st, zgroup_path) THEN Err("missing .zgroup", TRUE, zgroup_path)
       ELSE IF ~Parses(st, zgroup_path, "zgroup") THEN Err("invalid .zgroup", TRUE, zgroup_path)
       ELSE Ok([metadata EXCEPT !.groups =
                   MapInsert(@, path, [name |-> LastSegment(path), path |-> path,
                                       attributes |-> ReadAttrs(st, zattrs_path)])])

\* load_global_attributes: the root .zattrs, when it can be read.
load_global_attributes(st, metadata) ==
    IF FileExists(st, <<".zattrs">>)
    THEN [metadata EXCEPT !.global_attributes = ReadAttrs(st, <<".zattrs">>),
                          !.root_group.attributes = ReadAttrs(st, <<".zattrs">>)]
    ELSE metadata

\* The loop over the discovered variables, visited in `order`; the first
\* failure ends it.
RECURSIVE load_arrays(_, _, _, _)
load_arrays(st, metadata, order, k) ==
    IF k > Len(order) THEN Ok(metadata)
    ELSE LET r == load_array_metadata(st, metadata, order[k])
         IN IF r.ok THEN load_arrays(st, r.md, order, k + 1) ELSE r

\* The loop over the discovered groups.
RECURSIVE load_groups(_, _, _, _)
load_groups(st, metadata, order, k) ==
    IF k > Len(order) THEN Ok(metadata)
    ELSE LET r == load_group_metadata(st, metadata, order[k])
         IN IF r.ok THEN load_groups(st, r.md, order, k + 1) ELSE r

\* load_hierarchical_metadata: every result it can give.
load_hierarchical_metadata(st) ==
    LET scanned == scan_directory(st, NewMetadata, <<>>)
    IN UNION {
         LET arrays == load_arrays(st, scanned, vorder, 1)
         IN IF ~arrays.ok THEN {arrays}
            ELSE UNION {
                   LET groups == load_groups(st, arrays.md, gorder, 1)
                   IN IF ~groups.ok THEN {groups}
                      ELSE LET metadata == load_global_attributes(st, groups.md)
                           IN IF metadata.variables = EmptyMap /\ metadata.groups = EmptyMap
                              THEN {Err("No Zarr arrays or groups found", FALSE, <<>>)}
                              ELSE {Ok(m) : m \in Inferred(metadata)}
                   : gorder \in Orders(DOMAIN arrays.md.groups)}
         : vorder \in Orders(DOMAIN scanned.variables)}

(***************************************************************************)
(* The consolidated index (load_consolidated_metadata).  A key of the      *)
(* index is a path string, "time/.zarray" being <<"time", ".zarray">>.     *)
(***************************************************************************)
\* key.ends_with("/" + suffix)
EndsWithFile(key, suffix) == Len(key) >= 2 /\ key[Len(key)] = suffix

\* key.trim_end_matches("/" + suffix)
NodeOfKey(key) == SubSeq(key, 1, Len(key) - 1)

\* metadata_map.get(&attrs_key).and_then(|v| from_value(v).ok()).unwrap_or_default()
EntryAttrs(entries, path) ==
    LET attrs_key == Append(path, ".zattrs")
    IN IF HasKey(entries, attrs_key) /\ entries[attrs_key].kind = "attrs"
       THEN entries[attrs_key].attributes
       ELSE EmptyMap

\* One turn of the loop of parse_consolidated_metadata.
consolidated_entry(entries, metadata, key) ==
    IF key = <<".zattrs">>
    THEN LET attributes == IF entries[key].kind = "attrs" THEN entries[key].attributes
                           ELSE EmptyMap
         IN Ok([metadata EXCEPT !.global_attributes = attributes,
                                !.root_group.attributes = attributes])
    ELSE IF key = <<".zgroup">> THEN Ok(metadata)
    ELSE IF EndsWithFile(key, ".zarray")
    THEN LET path == NodeOfKey(key)
         IN IF entries[key].kind # "zarray"
            THEN Err("Failed to parse .zarray", FALSE, <<>>)
            ELSE Ok([metadata EXCEPT !.variables =
                        MapInsert(@, path, VariableFromZarray(path, "", entries[key],
                                                              EntryAttrs(entries, path)))])
    ELSE IF EndsWithFile(key, ".zgroup")
    THEN LET path == NodeOfKey(key)
         IN IF path # <<"">>
            THEN Ok([metadata EXCEPT !.groups =
                        MapInsert(@, path, [name |-> LastSegment(path), path |-> path,
                                            attributes |-> EntryAttrs(entries, path)])])
            ELSE Ok(metadata)
    ELSE Ok(metadata)

\* The entries of a set in one fixed order.
RECURSIVE InSomeOrder(_)
InSomeOrder(S) ==
    IF S = {} THEN <<>>
    ELSE LET x == CHOOSE y \in S : TRUE IN <<x>> \o InSomeOrder(S \ {x})

RECURSIVE consolidated_entries(_, _, _, _)
consolidated_entries(entries, metadata, order, k) ==
    IF k > Len(order) THEN Ok(metadata)
    ELSE LET r == consolidated_entry(entries, metadata, order[k])
         IN IF r.ok THEN consolidated_entries(entries, r.md, order, k + 1) ELSE r

\* parse_consolidated_metadata: every result it can give.  The loop visits the
\* keys in the HashMap's order; a turn writes only the slot of its own node, so
\* the order decides nothing but which failing key, if any, ends the loop first,
\* and every failure is the same error.
parse_consolidated_metadata(entries) ==
    LET r == consolidated_entries(entries, [NewMetadata EXCEPT !.zarr_format = 2],
                                  InSomeOrder(DOMAIN entries), 1)
    IN IF r.ok THEN {Ok(m) : m \in Inferred(r.md)} ELSE {r}

\* load_consolidated_metadata: every result it can give.
load_consolidated_metadata(st) ==
    IF ~FileExists(st, <<".zmetadata">>)
    THEN {Err("No consolidated metadata found", TRUE, <<".zmetadata">>)}
    ELSE IF ~Parses(st, <<".zmetadata">>, "consolidated")
    THEN {Err("Invalid consolidated metadata JSON", TRUE, <<".zmetadata">>)}
    ELSE parse_consolidated_metadata(st[<<".zmetadata">>].metadata)

(***************************************************************************)
(* The v3 manifest (load_v3_metadata).  The declarations of ZarrV3Root and *)
(* ZarrV3ArrayMetadata are not among the sources: a zarr.json of kind      *)
(* "v3root" resp. "v3array" is one that parses as such.                    *)
(***************************************************************************)
\* convert_v3_array_to_variable: the Variable of a v3 array document.  The
\* array's attributes are kept and its dimension_names, when it has some, are
\* stored as the attribute "dimension_names".
convert_v3_array_to_variable(metadata, path, v3_array) ==
    LET attributes == IF v3_array.attributes = <<>> THEN EmptyMap ELSE v3_array.attributes[1]
        with_names ==
            IF v3_array.dimension_names = <<>> THEN attributes
            ELSE MapInsert(attributes, "dimension_names",
                           AVArray([i \in 1..Len(v3_array.dimension_names[1]) |->
                                       AVString(v3_array.dimension_names[1][i])]))
    IN [metadata EXCEPT !.variables =
           MapInsert(@, path,
                     [name |-> LastSegment(path), path |-> path, shape |-> v3_array.shape,
                      fill_value |-> <<AVString("NaN")>>, attributes |-> with_names,
                      dimensions |-> PlaceholderDimensions(v3_array.shape)])]

\* if filename.starts_with('.') || filename == "c" { continue; }
SkippedByV3Scan(filename) == filename = "c"

\* scan_v3_directory: the scan stops at the first node document that does not
\* parse; `children_order` gives, for each directory, the order read_dir lists
\* its sub-directories in.
RECURSIVE scan_v3_directory(_, _, _, _)
RECURSIVE scan_v3_children(_, _, _, _, _)

scan_v3_directory(st, r, dir, children_order) ==
    scan_v3_children(st, r, dir, children_order[dir], children_order)

scan_v3_children(st, r, dir, entries, children_order) ==
    IF ~r.ok \/ entries = <<>> THEN r
    ELSE LET filename == Head(entries)
             child == Append(dir, filename)
             zarr_json == Append(child, "zarr.json")
             converted ==
                 IF ~FileExists(st, zarr_json) THEN r
                 ELSE IF ~Parses(st, zarr_json, "v3array")
                 THEN Err("Failed to parse zarr.json", TRUE, zarr_json)
                 ELSE Ok(convert_v3_array_to_variable(r.md, PathOf(child), st[zarr_json]))
             scanned ==
                 IF SkippedByV3Scan(filename) THEN r
                 ELSE IF ~converted.ok THEN converted
                 ELSE scan_v3_directory(st, converted, child, children_order)
         IN scan_v3_children(st, scanned, dir, Tail(entries), children_order)

\* The orders in which read_dir may list the sub-directories of every directory.
ChildrenOrders(st) ==
    {o \in [Directories(st) -> UNION {Orders(ChildDirs(st, d)) : d \in Directories(st)}] :
        \A d \in Directories(st) : o[d] \in Orders(ChildDirs(st, d))}

RECURSIVE convert_consolidated(_, _, _, _)
convert_consolidated(entries, metadata, order, k) ==
    IF k > Len(order) THEN metadata
    ELSE convert_consolidated(entries,
                              convert_v3_array_to_variable(metadata, order[k], entries[order[k]]),
                              order, k + 1)

\* load_v3_metadata: every result it can give.
load_v3_metadata(st) ==
    IF ~FileExists(st, <<"zarr.json">>) THEN {Err("Failed to read zarr.json", TRUE, <<"zarr.json">>)}
    ELSE IF ~Parses(st, <<"zarr.json">>, "v3root") THEN {Err("Failed to parse zarr.json", FALSE, <<>>)}
    ELSE LET v3_root == st[<<"zarr.json">>]
             rooted == [NewMetadata EXCEPT
                          !.zarr_format = 3,
                          !.global_attributes =
                              IF v3_root.attributes = <<>> THEN @ ELSE v3_root.attributes[1],
                          !.root_group.attributes =
                              IF v3_root.attributes = <<>> THEN @ ELSE v3_root.attributes[1]]
         IN IF v3_root.consolidated_metadata # <<>>
            THEN LET entries == v3_root.consolidated_metadata[1]
                     filled == convert_consolidated(
                                   entries, rooted,
                                   InSomeOrder(DOMAIN entries), 1)
                 IN {Ok(m) : m \in Inferred(filled)}
            ELSE UNION {
                   LET r == scan_v3_directory(st, Ok(rooted), <<>>, children_order)
                   IN IF r.ok THEN {Ok(m) : m \in Inferred(r.md)} ELSE {r}
                   : children_order \in ChildrenOrders(st)}

(***************************************************************************)
(* load_metadata: the v3 manifest when a root zarr.json exists; else the   *)
(* consolidated index and, if that fails for any reason, the per-node scan.*)
(***************************************************************************)
\* A result together with the lines load_metadata printed on the way to it.
Printing(r, lines) == [ok |-> r.ok, md |-> r.md, error |-> r.error, printed |-> lines]

\* Variant: the consolidated index is tried before the v3 manifest.
load_metadata_index_first(st) ==
    LET consolidated == load_consolidated_metadata(st)
    IN IF \A r \in consolidated : r.ok
       THEN {Printing(r, <<"Loaded consolidated metadata from .zmetadata">>) : r \in consolidated}
       ELSE IF FileExists(st, <<"zarr.json">>)
       THEN {Printing(r, <<>>) : r \in load_v3_metadata(st)}
       ELSE {Printing(r, <<"Consolidated metadata not found",
                           "Falling back to hierarchical scanning...">>)
             : r \in load_hierarchical_metadata(st)}

load_metadata(st) ==
    IF FileExists(st, <<"zarr.json">>)
    THEN LET v3 == load_v3_metadata(st) IN
         {Printing(r, <<IF st[<<"zarr.json">>].kind = "v3root"
                           /\ st[<<"zarr.json">>].consolidated_metadata = <<>>
                        THEN "Scanning for individual zarr.json files (Zarr v3)..."
                        ELSE "Loaded consolidated metadata from zarr.json (Zarr v3)">>)
          : r \in {x \in v3 : x.ok}}
         \cup {Printing(r, <<>>) : r \in {x \in v3 : ~x.ok}}
    ELSE LET consolidated == load_consolidated_metadata(st)
         IN {Printing(r, <<"Loaded consolidated metadata from .zmetadata">>)
             : r \in {x \in consolidated : x.ok}}
            \cup (IF \E r \in consolidated : ~r.ok
                  THEN {Printing(r, <<"Consolidated metadata not found",
                                      "Falling back to hierarchical scanning...">>)
                        : r \in load_hierarchical_metadata(st)}
                  ELSE {})

(***************************************************************************)
(* How a run stands: in progress, ended in failure with an error (main     *)
(* prints it and exits with status 1), or ended in success.                *)
(***************************************************************************)
Running == [status |-> "running", error |-> [kind |-> "", names_file |-> FALSE, file |-> <<>>]]

Failed(err) == [status |-> "failure", error |-> err]

Succeeded == [status |-> "success", error |-> Running.error]

(***************************************************************************)
(* Strings.  A string value is a TLA+ string; Chars spells out, character  *)
(* by character, every string the model works with, and the str methods   *)
(* the sources call are computed on the spelling.                         *)
(***************************************************************************)
Vocabulary ==
    {"", "CF-", " since ", "seconds", "second", "minutes", "minute", "hours",
     "hour", "days", "day", "months", "month", "years", "year", "time",
     "latitude", "longitude", "degrees_north", "degree_north",
     "degrees_east", "degree_east", "air_pressure", "depth", "altitude",
     "geopotential_height", "model_level_number",
     "atmosphere_hybrid_sigma_pressure_coordinate",
     "atmosphere_hybrid_height_coordinate", "atmosphere_sigma_coordinate",
     "ocean_sigma_coordinate", "ocean_sigma_z_coordinate",
     "ocean_s_coordinate", "ocean_s_coordinate_g1", "ocean_s_coordinate_g2",
     "ocean_double_sigma_coordinate", "lev", "level", "plev", "height", "z",
     "up", "down", "dim_", "dim_0", "dim_1", "dim_2", "lat", "lon", "temp",
     "grp", "x", "bnds", "lat_bnds", "crs", "root", "T", "Y", "CF-1.8",
     "COARDS", "days since 1850-01-01", "Days Since 1850-01-01", "time lat",
     "time lon", "latitude_longitude", "grp/lat",
     "days since",
     "days since not-a-date",
     "lon time lat",
     "Lat",
     "LON",
     "LAT",
     "y",
     "t",
     "X",
     "Z",
     "A"}

Chars(s) ==
    CASE s = "" -> <<>>
      [] s = "CF-" -> <<"C", "F", "-">>
      [] s = " since " -> <<" ", "s", "i", "n", "c", "e", " ">>
      [] s = "seconds" -> <<"s", "e", "c", "o", "n", "d", "s">>
      [] s = "second" -> <<"s", "e", "c", "o", "n", "d">>
      [] s = "minutes" -> <<"m", "i", "n", "u", "t", "e", "s">>
      [] s = "minute" -> <<"m", "i", "n", "u", "t", "e">>
      [] s = "hours" -> <<"h", "o", "u", "r", "s">>
      [] s = "hour" -> <<"h", "o", "u", "r">>
      [] s = "days" -> <<"d", "a", "y", "s">>
      [] s = "day" -> <<"d", "a", "y">>
      [] s = "months" -> <<"m", "o", "n", "t", "h", "s">>
      [] s = "month" -> <<"m", "o", "n", "t", "h">>
      [] s = "years" -> <<"y", "e", "a", "r", "s">>
      [] s = "year" -> <<"y", "e", "a", "r">>
      [] s = "time" -> <<"t", "i", "m", "e">>
      [] s = "latitude" -> <<"l", "a", "t", "i", "t", "u", "d", "e">>
      [] s = "longitude" -> <<"l", "o", "n", "g", "i", "t", "u", "d", "e">>
      [] s = "degrees_north" -> <<"d", "e", "g", "r", "e", "e", "s", "_", "n", "o", "r", "t", "h">>
      [] s = "degree_north" -> <<"d", "e", "g", "r", "e", "e", "_", "n", "o", "r", "t", "h">>
      [] s = "degrees_east" -> <<"d", "e", "g", "r", "e", "e", "s", "_", "e", "a", "s", "t">>
      [] s = "degree_east" -> <<"d", "e", "g", "r", "e", "e", "_", "e", "a", "s", "t">>
      [] s = "air_pressure" -> <<"a", "i", "r", "_", "p", "r", "e", "s", "s", "u", "r", "e">>
      [] s = "depth" -> <<"d", "e", "p", "t", "h">>
      [] s = "altitude" -> <<"a", "l", "t", "i", "t", "u", "d", "e">>
      [] s = "geopotential_height" -> <<"g", "e", "o", "p", "o", "t", "e", "n", "t", "i", "a", "l", "_", "h", "e", "i", "g", "h", "t">>
      [] s = "model_level_number" -> <<"m", "o", "d", "e", "l", "_", "l", "e", "v", "e", "l", "_", "n", "u", "m", "b", "e", "r">>
      [] s = "atmosphere_hybrid_sigma_pressure_coordinate" -> <<"a", "t", "m", "o", "s", "p", "h", "e", "r", "e", "_", "h", "y", "b", "r", "i", "d", "_", "s", "i", "g", "m", "a", "_", "p", "r", "e", "s", "s", "u", "r", "e", "_", "c", "o", "o", "r", "d", "i", "n", "a", "t", "e">>
      [] s = "atmosphere_hybrid_height_coordinate" -> <<"a", "t", "m", "o", "s", "p", "h", "e", "r", "e", "_", "h", "y", "b", "r", "i", "d", "_", "h", "e", "i", "g", "h", "t", "_", "c", "o", "o", "r", "d", "i", "n", "a", "t", "e">>
      [] s = "atmosphere_sigma_coordinate" -> <<"a", "t", "m", "o", "s", "p", "h", "e", "r", "e", "_", "s", "i", "g", "m", "a", "_", "c", "o", "o", "r", "d", "i", "n", "a", "t", "e">>
      [] s = "ocean_sigma_coordinate" -> <<"o", "c", "e", "a", "n", "_", "s", "i", "g", "m", "a", "_", "c", "o", "o", "r", "d", "i", "n", "a", "t", "e">>
      [] s = "ocean_sigma_z_coordinate" -> <<"o", "c", "e", "a", "n", "_", "s", "i", "g", "m", "a", "_", "z", "_", "c", "o", "o", "r", "d", "i", "n", "a", "t", "e">>
      [] s = "ocean_s_coordinate" -> <<"o", "c", "e", "a", "n", "_", "s", "_", "c", "o", "o", "r", "d", "i", "n", "a", "t", "e">>
      [] s = "ocean_s_coordinate_g1" -> <<"o", "c", "e", "a", "n", "_", "s", "_", "c", "o", "o", "r", "d", "i", "n", "a", "t", "e", "_", "g", "1">>
      [] s = "ocean_s_coordinate_g2" -> <<"o", "c", "e", "a", "n", "_", "s", "_", "c", "o", "o", "r", "d", "i", "n", "a", "t", "e", "_", "g", "2">>
      [] s = "ocean_double_sigma_coordinate" -> <<"o", "c", "e", "a", "n", "_", "d", "o", "u", "b", "l", "e", "_", "s", "i", "g", "m", "a", "_", "c", "o", "o", "r", "d", "i", "n", "a", "t", "e">>
      [] s = "lev" -> <<"l", "e", "v">>
      [] s = "level" -> <<"l", "e", "v", "e", "l">>
      [] s = "plev" -> <<"p", "l", "e", "v">>
      [] s = "height" -> <<"h", "e", "i", "g", "h", "t">>
      [] s = "z" -> <<"z">>
      [] s = "up" -> <<"u", "p">>
      [] s = "down" -> <<"d", "o", "w", "n">>
      [] s = "dim_" -> <<"d", "i", "m", "_">>
      [] s = "dim_0" -> <<"d", "i", "m", "_", "0">>
      [] s = "dim_1" -> <<"d", "i", "m", "_", "1">>
      [] s = "dim_2" -> <<"d", "i", "m", "_", "2">>
      [] s = "lat" -> <<"l", "a", "t">>
      [] s = "lon" -> <<"l", "o", "n">>
      [] s = "temp" -> <<"t", "e", "m", "p">>
      [] s = "grp" -> <<"g", "r", "p">>
      [] s = "x" -> <<"x">>
      [] s = "bnds" -> <<"b", "n", "d", "s">>
      [] s = "lat_bnds" -> <<"l", "a", "t", "_", "b", "n", "d", "s">>
      [] s = "crs" -> <<"c", "r", "s">>
      [] s = "root" -> <<"r", "o", "o", "t">>
      [] s = "T" -> <<"T">>
      [] s = "Y" -> <<"Y">>
      [] s = "CF-1.8" -> <<"C", "F", "-", "1", ".", "8">>
      [] s = "COARDS" -> <<"C", "O", "A", "R", "D", "S">>
      [] s = "days since 1850-01-01" -> <<"d", "a", "y", "s", " ", "s", "i", "n", "c", "e", " ", "1", "8", "5", "0", "-", "0", "1", "-", "0", "1">>
      [] s = "Days Since 1850-01-01" -> <<"D", "a", "y", "s", " ", "S", "i", "n", "c", "e", " ", "1", "8", "5", "0", "-", "0", "1", "-", "0", "1">>
      [] s = "time lat" -> <<"t", "i", "m", "e", " ", "l", "a", "t">>
      [] s = "time lon" -> <<"t", "i", "m", "e", " ", "l", "o", "n">>
      [] s = "latitude_longitude" -> <<"l", "a", "t", "i", "t", "u", "d", "e", "_", "l", "o", "n", "g", "i", "t", "u", "d", "e">>
      [] s = "grp/lat" -> <<"g", "r", "p", "/", "l", "a", "t">>
      [] s = "days since" -> <<"d", "a", "y", "s", " ", "s", "i", "n", "c", "e">>
      [] s = "days since not-a-date" -> <<"d", "a", "y", "s", " ", "s", "i", "n", "c", "e", " ", "n", "o", "t", "-", "a", "-", "d", "a", "t", "e">>
      [] s = "lon time lat" -> <<"l", "o", "n", " ", "t", "i", "m", "e", " ", "l", "a", "t">>
      [] s = "Lat" -> <<"L", "a", "t">>
      [] s = "LON" -> <<"L", "O", "N">>
      [] s = "LAT" -> <<"L", "A", "T">>
      [] s = "y" -> <<"y">>
      [] s = "t" -> <<"t">>
      [] s = "X" -> <<"X">>
      [] s = "Z" -> <<"Z">>
      [] s = "A" -> <<"A">>

\* The string with a given spelling.
Spell(cs) == CHOOSE s \in Vocabulary : Chars(s) = cs

\* The ASCII letters: Letters[1] in upper case, Letters[2] in lower case.
Letters ==
    <<<<"A", "B", "C", "D", "E", "F", "G", "H", "I", "J", "K", "L", "M",
        "N", "O", "P", "Q", "R", "S", "T", "U", "V", "W", "X", "Y", "Z">>,
      <<"a", "b", "c", "d", "e", "f", "g", "h", "i", "j", "k", "l", "m",
        "n", "o", "p", "q", "r", "s", "t", "u", "v", "w", "x", "y", "z">>>>

\* char::to_ascii_lowercase / to_ascii_uppercase
to_ascii_lowercase(c) ==
    IF \E i \in 1..26 : Letters[1][i] = c
    THEN Letters[2][CHOOSE i \in 1..26 : Letters[1][i] = c] ELSE c

to_ascii_uppercase(c) ==
    IF \E i \in 1..26 : Letters[2][i] = c
    THEN Letters[1][CHOOSE i \in 1..26 : Letters[2][i] = c] ELSE c

\* str::to_ascii_lowercase
Lowercase(cs) == [i \in 1..Len(cs) |-> to_ascii_lowercase(cs[i])]

\* str::eq_ignore_ascii_case
eq_ignore_ascii_case(a, b) == Lowercase(a) = Lowercase(b)

\* str::starts_with
starts_with(cs, prefix) ==
    Len(cs) >= Len(prefix) /\ SubSeq(cs, 1, Len(prefix)) = prefix

\* s.get(0..prefix.len()).is_some_and(|head| head.eq_ignore_ascii_case(prefix))
starts_with_ignore_ascii_case(cs, prefix) ==
    Len(cs) >= Len(prefix) /\ eq_ignore_ascii_case(SubSeq(cs, 1, Len(prefix)), prefix)

\* The positions at which pat occurs in cs.
Occurrences(cs, pat) ==
    {i \in 1..(Len(cs) - Len(pat) + 1) : SubSeq(cs, i, i + Len(pat) - 1) = pat}

\* str::contains
contains(cs, pat) == Len(pat) = 0 \/ Occurrences(cs, pat) # {}

is_whitespace(c) == c \in {" ", "\t", "\n", "\r"}

is_ascii_digit(c) == c \in {"0", "1", "2", "3", "4", "5", "6", "7", "8", "9"}

\* str::trim
trim(cs) ==
    LET inked == {i \in 1..Len(cs) : ~is_whitespace(cs[i])}
    IN IF inked = {} THEN <<>>
       ELSE SubSeq(cs, CHOOSE i \in inked : \A j \in inked : i <= j,
                       CHOOSE i \in inked : \A j \in inked : i >= j)

\* str::split_once: None as <<>>, Some((head, tail)) as <<head, tail>>.
split_once(cs, pat) ==
    LET at == Occurrences(cs, pat)
    IN IF at = {} THEN <<>>
       ELSE LET i == CHOOSE k \in at : \A j \in at : k <= j
            IN <<SubSeq(cs, 1, i - 1), SubSeq(cs, i + Len(pat), Len(cs))>>

\* str::split on one character: the pieces between its occurrences.
RECURSIVE split(_, _)
split(cs, sep) ==
    LET cut == split_once(cs, <<sep>>)
    IN IF cut = <<>> THEN <<cs>> ELSE <<cut[1]>> \o split(cut[2], sep)

\* str::split_whitespace: the maximal runs of non-whitespace characters.
RECURSIVE split_whitespace(_)
split_whitespace(cs) ==
    LET inked == {i \in 1..Len(cs) : ~is_whitespace(cs[i])}
    IN IF inked = {} THEN <<>>
       ELSE LET first == CHOOSE i \in inked : \A j \in inked : i <= j
                stops == {i \in first..Len(cs) : is_whitespace(cs[i])}
                last == IF stops = {} THEN Len(cs)
                        ELSE (CHOOSE i \in stops : \A j \in stops : i <= j) - 1
            IN <<SubSeq(cs, first, last)>> \o split_whitespace(SubSeq(cs, last + 1, Len(cs)))

\* A path string as its '/'-separated segments.
Segments(s) ==
    LET pieces == split(Chars(s), "/")
    IN [i \in 1..Len(pieces) |-> Spell(pieces[i])]

(***************************************************************************)
(* The CF checker (cf.rs): the report.                                     *)
(***************************************************************************)
\* CfReport::default()
NewReport == [issues |-> <<>>, warnings |-> 0, errors |-> 0]

\* A message, kept as what it reports, the variable or dimension it names (as
\* a path) and the attribute, name or direction it cites ("" when none).
Msg(kind, subject, detail) == [kind |-> kind, subject |-> subject, detail |-> detail]

\* Variant: an Info that is counted as a warning.
info_counted(r, msg) ==
    [r EXCEPT !.warnings = @ + 1,
              !.issues = Append(@, [level |-> "Info", message |-> msg])]

info(r, msg) == [r EXCEPT !.issues = Append(@, [level |-> "Info", message |-> msg])]

warn(r, msg) ==
    [r EXCEPT !.warnings = @ + 1,
              !.issues = Append(@, [level |-> "Warning", message |-> msg])]

error(r, msg) ==
    [r EXCEPT !.errors = @ + 1,
              !.issues = Append(@, [level |-> "Error", message |-> msg])]

\* Variant: warnings count as errors.
has_errors_or_warnings(r) == r.errors > 0 \/ r.warnings > 0

has_errors(r) == r.errors > 0

\* CfReport::print: the lines written, one per issue between the braces.
print(r) ==
    <<<<"cf-check {">>>>
    \o [i \in 1..Len(r.issues) |->
          <<CASE r.issues[i].level = "Info" -> "INFO"
              [] r.issues[i].level = "Warning" -> "WARN"
              [] r.issues[i].level = "Error" -> "ERROR",
            r.issues[i].message>>]
    \o <<<<"}">>, <<"Summary", r.warnings, r.errors>>>>

(***************************************************************************)
(* Attribute and name helpers.                                             *)
(***************************************************************************)
\* HashMap::get: None as <<>>, Some(v) as <<v>>.
Get(m, k) == IF HasKey(m, k) THEN <<m[k]>> ELSE <<>>

\* attr_string: the spelling of a string attribute, None for anything else.
attr_string(var, key) ==
    IF HasKey(var.attributes, key) /\ var.attributes[key].tag = "String"
    THEN <<Chars(var.attributes[key].str)>> ELSE <<>>

axis_char(axis) ==
    IF axis = <<>> \/ axis[1] = <<>> THEN <<>> ELSE <<to_ascii_uppercase(axis[1][1])>>

display_var_path(path, var) == IF path = <<"">> THEN <<"root">> ELSE var.path

describe_attr_value(value) ==
    CASE value.tag = "String" -> "string"
      [] value.tag = "Number" -> "number"
      [] value.tag = "Integer" -> "integer"
      [] value.tag = "Boolean" -> "boolean"
      [] value.tag = "Array" -> "array"
      [] value.tag = "Object" -> "object"
      [] value.tag = "Null" -> "null"

\* Variant: no digit is asked of what follows ' since '.
cf_time_units_looks_ok_any_rest(units) ==
    LET u == Lowercase(trim(units))
        cut == split_once(u, Chars(" since "))
    IN /\ cut # <<>>
       /\ trim(cut[2]) # <<>>
       /\ trim(cut[1]) \in {Chars(w) : w \in {"seconds", "second", "minutes", "minute",
                                                "hours", "hour", "days", "day",
                                                "months", "month", "years", "year"}}

cf_time_units_looks_ok(units) ==
    LET u == Lowercase(trim(units))
        cut == split_once(u, Chars(" since "))
    IN /\ trim(units) # <<>>
       /\ cut # <<>>
       /\ LET prefix == trim(cut[1])
              rest == trim(cut[2])
          IN /\ rest # <<>>
             /\ \E i \in 1..Len(rest) : is_ascii_digit(rest[i])
             /\ prefix \in {Chars(w) : w \in {"seconds", "second", "minutes", "minute",
                                              "hours", "hour", "days", "day",
                                              "months", "month", "years", "year"}}

is_time_coordinate(name, axis, standard_name, units) ==
    \/ axis = <<"T">>
    \/ (standard_name # <<>> /\ eq_ignore_ascii_case(standard_name[1], Chars("time")))
    \/ eq_ignore_ascii_case(name, Chars("time"))
    \/ starts_with_ignore_ascii_case(name, Chars("time"))
    \/ (units # <<>> /\ cf_time_units_looks_ok(units[1]))

units_looks_like_latitude(units) ==
    \/ contains(Lowercase(units), Chars("degrees_north"))
    \/ contains(Lowercase(units), Chars("degree_north"))

units_looks_like_longitude(units) ==
    \/ contains(Lowercase(units), Chars("degrees_east"))
    \/ contains(Lowercase(units), Chars("degree_east"))

is_latitude_coordinate(standard_name, units) ==
    \/ (standard_name # <<>> /\ eq_ignore_ascii_case(standard_name[1], Chars("latitude")))
    \/ (units # <<>> /\ units_looks_like_latitude(units[1]))

is_longitude_coordinate(standard_name, units) ==
    \/ (standard_name # <<>> /\ eq_ignore_ascii_case(standard_name[1], Chars("longitude")))
    \/ (units # <<>> /\ units_looks_like_longitude(units[1]))

standard_name_suggests_vertical(sn) ==
    \E w \in {"air_pressure", "depth", "altitude", "geopotential_height",
              "model_level_number", "atmosphere_hybrid_sigma_pressure_coordinate",
              "atmosphere_hybrid_height_coordinate", "atmosphere_sigma_coordinate",
              "ocean_sigma_coordinate", "ocean_sigma_z_coordinate", "ocean_s_coordinate",
              "ocean_s_coordinate_g1", "ocean_s_coordinate_g2",
              "ocean_double_sigma_coordinate"} : eq_ignore_ascii_case(sn, Chars(w))

is_vertical_coordinate(name, axis, standard_name) ==
    \/ axis = <<"Z">>
    \/ (standard_name # <<>> /\ standard_name_suggests_vertical(standard_name[1]))
    \/ \E w \in {"lev", "level", "plev", "depth", "altitude", "height", "z"} :
          eq_ignore_ascii_case(name, Chars(w))

vertical_positive_required(name, standard_name) ==
    \/ \E w \in {"depth", "altitude", "height"} : eq_ignore_ascii_case(name, Chars(w))
    \/ /\ standard_name # <<>>
       /\ \E w \in {"depth", "altitude", "geopotential_height"} :
             eq_ignore_ascii_case(standard_name[1], Chars(w))

\* Variant: the exact lookup only.
resolve_related_var_exact_only(variables, source_path, name) ==
    IF HasKey(variables, name) THEN <<name>> ELSE <<>>

\* Variant: the parent's scope is tried before the exact match.
resolve_related_var_parent_first(variables, source_path, name) ==
    IF Len(source_path) >= 2
       /\ HasKey(variables, SubSeq(source_path, 1, Len(source_path) - 1) \o name)
    THEN <<SubSeq(source_path, 1, Len(source_path) - 1) \o name>>
    ELSE IF HasKey(variables, name) THEN <<name>>
    ELSE <<>>

\* resolve_related_var: Some(key) as <<key>>, None as <<>>.  rsplit_once('/')
\* succeeds when the source path has more than one segment and yields all but
\* the last as parent; format!("{}/{}", parent, name) joins the segments.
resolve_related_var(variables, source_path, name) ==
    IF HasKey(variables, name) THEN <<name>>
    ELSE IF Len(source_path) >= 2
    THEN LET parent == SubSeq(source_path, 1, Len(source_path) - 1)
             candidate == parent \o name
         IN IF HasKey(variables, candidate) THEN <<candidate>> ELSE <<>>
    ELSE <<>>

(***************************************************************************)
(* f64 samples: a finite value val, or NaN (val 0), +inf (val 1), -inf     *)
(* (val -1).                                                               *)
(***************************************************************************)
F(n) == [fin |-> TRUE, val |-> n]
NaN == [fin |-> FALSE, val |-> 0]
PosInf == [fin |-> FALSE, val |-> 1]
NegInf == [fin |-> FALSE, val |-> -1]

\* f64 ==: NaN equals nothing.
FloatEq(a, b) == a # NaN /\ a = b

\* missing_values.contains(&v)
ContainsFloat(xs, v) == \E i \in 1..Len(xs) : FloatEq(xs[i], v)

\* f64::total_cmp for the values above: -inf, the finite values, +inf, NaN.
TotalLe(a, b) ==
    \/ a = b
    \/ b = NaN
    \/ (a = NegInf /\ b # NaN)
    \/ (b = PosInf /\ a # NaN)
    \/ (a.fin /\ b.fin /\ a.val < b.val)

\* out.sort_by(total_cmp); out.dedup(): the distinct values in ascending order.
SortDedup(xs) ==
    LET S == {xs[i] : i \in 1..Len(xs)}
    IN CHOOSE o \in [1..Cardinality(S) -> S] :
          \A i, j \in 1..Cardinality(S) : i < j => (o[i] # o[j] /\ TotalLe(o[i], o[j]))

RECURSIVE push_missing_values_attr(_, _)
RECURSIVE push_missing_values_items(_, _, _)

push_missing_values_attr(out, value) ==
    CASE value.tag = "Number" -> Append(out, F(value.num))
      [] value.tag = "Integer" -> Append(out, F(value.num))
      [] value.tag = "Array" -> push_missing_values_items(out, value.items, 1)
      [] OTHER -> out

push_missing_values_items(out, values, k) ==
    IF k > Len(values) THEN out
    ELSE push_missing_values_items(push_missing_values_attr(out, values[k]), values, k + 1)

collect_missing_values_f64(var) ==
    LET a == IF HasKey(var.attributes, "_FillValue")
             THEN push_missing_values_attr(<<>>, var.attributes["_FillValue"]) ELSE <<>>
        b == IF HasKey(var.attributes, "missing_value")
             THEN push_missing_values_attr(a, var.attributes["missing_value"]) ELSE a
        c == IF var.fill_value # <<>> THEN push_missing_values_attr(b, var.fill_value[1]) ELSE b
    IN SortDedup(c)

\* Variant: the missing values are kept.
Filtered_finite(values, missing_values) == SelectSeq(values, LAMBDA v : v.fin)

\* values.filter(|v| v.is_finite() && !missing_values.contains(v))
Filtered(values, missing_values) ==
    SelectSeq(values, LAMBDA v : v.fin /\ ~ContainsFloat(missing_values, v))

\* sample_min_max: None as <<>>, Some((min, max)) as <<[min, max]>>.
sample_min_max(values, missing_values) ==
    LET kept == Filtered(values, missing_values)
        S == {kept[i].val : i \in 1..Len(kept)}
    IN IF kept = <<>> THEN <<>>
       ELSE <<[min |-> CHOOSE m \in S : \A x \in S : m <= x,
               max |-> CHOOSE m \in S : \A x \in S : m >= x]>>

\* Variant: equal neighbours break both orders.
RECURSIVE scan_windows_strict(_, _, _, _, _)
scan_windows_strict(filtered, k, nondecreasing, nonincreasing, any_change) ==
    IF k >= Len(filtered)
    THEN IF ~any_change THEN <<"constant">>
         ELSE IF nondecreasing THEN <<"increasing">>
         ELSE IF nonincreasing THEN <<"decreasing">>
         ELSE <<>>
    ELSE LET a == filtered[k].val
             b == filtered[k + 1].val
             nd == nondecreasing /\ b > a
             ni == nonincreasing /\ b < a
         IN IF ~nd /\ ~ni THEN <<>>
            ELSE scan_windows_strict(filtered, k + 1, nd, ni, any_change \/ (b - a) # 0)

\* The forward scan of monotonic_direction over the windows of two, from
\* window k on; it returns None the moment both flags are false.
RECURSIVE scan_windows(_, _, _, _, _)
scan_windows(filtered, k, nondecreasing, nonincreasing, any_change) ==
    IF k >= Len(filtered)
    THEN IF ~any_change THEN <<"constant">>
         ELSE IF nondecreasing THEN <<"increasing">>
         ELSE IF nonincreasing THEN <<"decreasing">>
         ELSE <<>>
    ELSE LET a == filtered[k].val
             b == filtered[k + 1].val
             nd == nondecreasing /\ ~(b < a)
             ni == nonincreasing /\ ~(b > a)
         IN IF ~nd /\ ~ni THEN <<>>
            ELSE scan_windows(filtered, k + 1, nd, ni, any_change \/ (b - a) # 0)

\* monotonic_direction: None as <<>>, Some(direction) as <<direction>>.
monotonic_direction(values, missing_values) ==
    LET filtered == Filtered(values, missing_values)
    IN IF Len(filtered) < 2 THEN <<>>
       ELSE scan_windows(filtered, 1, TRUE, TRUE, FALSE)

\* 10_000, the cap on the number of values sampled.
SampleCap == 10000

\* The number of units of 1e-6 in 1.0 (the tolerance of the range checks).
Micro == 1000000

\* min < -bound - 1e-6 || max > bound + 1e-6
OutOfRange(range, bound) ==
    \/ range.min * Micro < (0 - bound) * Micro - 1
    \/ range.max * Micro > bound * Micro + 1

\* store.read_array_subset_f64(var, &[0..sample]): Err as [ok |-> FALSE], else
\* the first `sample` values of the array.
read_array_subset_f64(arrays, var, sample) ==
    IF arrays[var.path].ok
    THEN [ok |-> TRUE, data |-> SubSeq(arrays[var.path].values, 1, sample)]
    ELSE [ok |-> FALSE, data |-> <<>>]

(***************************************************************************)
(* The checks of cf_check, each threading the report.                      *)
(***************************************************************************)
check_global_conventions(metadata, rep) ==
    LET attrs == metadata.global_attributes
        conv == IF HasKey(attrs, "Conventions") THEN Get(attrs, "Conventions")
                ELSE Get(attrs, "conventions")
    IN IF conv = <<>> THEN warn(rep, Msg("Conventions missing", <<>>, ""))
       ELSE IF conv[1].tag = "String"
       THEN IF contains(Chars(conv[1].str), Chars("CF-"))
            THEN info(rep, Msg("Conventions", <<>>, conv[1].str))
            ELSE warn(rep, Msg("Conventions without CF-", <<>>, conv[1].str))
       ELSE warn(rep, Msg("Conventions not a string", <<>>, describe_attr_value(conv[1])))

\* The loop over the string entries of a name list: a Warning for an empty
\* name and a Warning for a name already seen.
RECURSIVE check_names(_, _, _, _, _)
check_names(rep, label, attr_name, names, k) ==
    IF k > Len(names) THEN rep
    ELSE LET r1 == IF trim(Chars(names[k])) = <<>>
                   THEN warn(rep, Msg("empty dimension name", label, attr_name))
                   ELSE rep
             r2 == IF \E j \in 1..(k - 1) : names[j] = names[k]
                   THEN warn(r1, Msg("duplicate dimension name", label, attr_name))
                   ELSE r1
         IN check_names(r2, label, attr_name, names, k + 1)

\* Variant: a length mismatch recorded as a Warning.
check_one_dimension_name_attr_warn(rep, path, var, attr_name) ==
    IF ~HasKey(var.attributes, attr_name) THEN rep
    ELSE IF var.attributes[attr_name].tag # "Array"
    THEN warn(rep, Msg("name list not an array", display_var_path(path, var), attr_name))
    ELSE IF Len(var.attributes[attr_name].items) # Len(var.shape)
    THEN warn(rep, Msg("name list length", display_var_path(path, var), attr_name))
    ELSE rep

check_one_dimension_name_attr(rep, path, var, attr_name) ==
    IF ~HasKey(var.attributes, attr_name) THEN rep
    ELSE LET attr == var.attributes[attr_name]
             label == display_var_path(path, var)
         IN IF attr.tag # "Array"
            THEN warn(rep, Msg("name list not an array", label, attr_name))
            ELSE LET items == attr.items
                     r1 == IF Len(items) # Len(var.shape)
                           THEN error(rep, Msg("name list length", label, attr_name))
                           ELSE rep
                     strings == SelectSeq(items, LAMBDA item : item.tag = "String")
                     names == [i \in 1..Len(strings) |-> strings[i].str]
                     r2 == IF Len(strings) # Len(items)
                           THEN warn(r1, Msg("name list with non-string entries", label, attr_name))
                           ELSE r1
                 IN check_names(r2, label, attr_name, names, 1)

\* check_dimension_names: the variables in the map's enumeration order.
RECURSIVE check_dimension_names(_, _, _, _)
check_dimension_names(metadata, rep, order, k) ==
    IF k > Len(order) THEN rep
    ELSE LET path == order[k]
             var == metadata.variables[path]
             dim_names_attr_present ==
                 \/ HasKey(var.attributes, "_ARRAY_DIMENSIONS")
                 \/ HasKey(var.attributes, "dimension_names")
             r1 == IF ~dim_names_attr_present /\ var.shape # <<>>
                   THEN warn(rep, Msg("no name list", display_var_path(path, var), ""))
                   ELSE rep
             r2 == check_one_dimension_name_attr(r1, path, var, "_ARRAY_DIMENSIONS")
             r3 == check_one_dimension_name_attr(r2, path, var, "dimension_names")
         IN check_dimension_names(metadata, r3, order, k + 1)

\* find_coordinate_variables: the paths, in enumeration order, of the
\* variables with one dimension that is named like the variable.
find_coordinate_variables(metadata, order) ==
    SelectSeq(order, LAMBDA path :
        /\ Len(metadata.variables[path].dimensions) = 1
        /\ metadata.variables[path].name = metadata.variables[path].dimensions[1].name)

\* Variant: the second size is looked at only when the first size matches.
check_bounds_variable_dependent(metadata, coord_path, coord_var, bounds_name, rep) ==
    LET resolved == resolve_related_var(metadata.variables, coord_path, Segments(bounds_name))
    IN IF resolved = <<>>
       THEN warn(rep, Msg("bounds not found", <<coord_var.name>>, bounds_name))
       ELSE LET bounds_var == metadata.variables[resolved[1]]
                subject == display_var_path(resolved[1], bounds_var)
            IN IF Len(bounds_var.shape) < 2
               THEN warn(rep, Msg("bounds with fewer than 2 dimensions", subject, ""))
               ELSE IF bounds_var.shape[1] # coord_var.shape[1]
               THEN warn(rep, Msg("bounds first size", subject, coord_var.name))
               ELSE IF bounds_var.shape[2] # 2
               THEN warn(rep, Msg("bounds second size", subject, ""))
               ELSE rep

check_bounds_variable(metadata, coord_path, coord_var, bounds_name, rep) ==
    LET resolved == resolve_related_var(metadata.variables, coord_path, Segments(bounds_name))
    IN IF resolved = <<>>
       THEN warn(rep, Msg("bounds not found", <<coord_var.name>>, bounds_name))
       ELSE LET bounds_var == metadata.variables[resolved[1]]
                subject == display_var_path(resolved[1], bounds_var)
                coord_len == IF coord_var.shape = <<>> THEN 0 ELSE coord_var.shape[1]
                first_size(r) ==
                    IF bounds_var.shape[1] # coord_len
                    THEN warn(r, Msg("bounds first size", subject, coord_var.name))
                    ELSE r
                second_size(r) ==
                    IF bounds_var.shape[2] # 2
                    THEN warn(r, Msg("bounds second size", subject, ""))
                    ELSE r
            IN IF Len(bounds_var.shape) < 2
               THEN warn(rep, Msg("bounds with fewer than 2 dimensions", subject, ""))
               ELSE second_size(first_size(rep))

\* Variant: a time coordinate is treated like any other.
monotonicity_issue_any(rep, dim, is_time, direction) ==
    LET found == IF direction = <<>> THEN "not monotonic" ELSE direction[1]
    IN IF found = "increasing" \/ found = "decreasing"
       THEN info(rep, Msg("monotonicity", <<dim>>, found))
       ELSE warn(rep, Msg("monotonicity", <<dim>>, found))

\* The monotonicity issue of a sampled coordinate.
monotonicity_issue(rep, dim, is_time, direction) ==
    LET found == IF direction = <<>> THEN "not monotonic" ELSE direction[1]
    IN IF found = "increasing" \/ (~is_time /\ found = "decreasing")
       THEN info(rep, Msg("monotonicity", <<dim>>, found))
       ELSE warn(rep, Msg("monotonicity", <<dim>>, found))

\* The range Warnings of a sampled latitude or longitude coordinate.
range_issues(rep, dim, is_lat, is_lon, sampled, missing_values) ==
    LET range == sample_min_max(sampled, missing_values)
    IN IF ~(is_lat \/ is_lon) \/ range = <<>> THEN rep
       ELSE LET r1 == IF is_lat /\ OutOfRange(range[1], 90)
                      THEN warn(rep, Msg("latitude out of bounds", <<dim>>, ""))
                      ELSE rep
            IN IF is_lon /\ OutOfRange(range[1], 360)
               THEN warn(r1, Msg("longitude out of bounds", <<dim>>, ""))
               ELSE r1

\* The body of the loop of check_coordinate_variables, for one coordinate.
check_coordinate_variable(arrays, metadata, path, rep) ==
    LET var == metadata.variables[path]
        dim == var.dimensions[1].name
        len == IF var.shape = <<>> THEN 0 ELSE var.shape[1]
        coord_label == display_var_path(path, var)
        axis == axis_char(attr_string(var, "axis"))
        standard_name == attr_string(var, "standard_name")
        units == attr_string(var, "units")
        positive == Get(var.attributes, "positive")
        sample == IF len < SampleCap THEN len ELSE SampleCap
        missing_values == collect_missing_values_f64(var)
        read == read_array_subset_f64(arrays, var, sample)
        length_check(r) ==
            IF len = 0 THEN warn(r, Msg("length 0", coord_label, "")) ELSE r
        units_check(r) ==
            IF ~HasKey(var.attributes, "units")
            THEN warn(r, Msg("units missing", coord_label, ""))
            ELSE IF var.attributes["units"].tag # "String"
            THEN warn(r, Msg("units not a string", coord_label,
                             describe_attr_value(var.attributes["units"])))
            ELSE r
        standard_name_check(r) ==
            IF standard_name # <<>>
            THEN info(r, Msg("standard_name", coord_label, var.attributes["standard_name"].str))
            ELSE r
        time_check(r, time) ==
            LET r1 == IF time /\ units # <<>> /\ ~cf_time_units_looks_ok(units[1])
                      THEN warn(r, Msg("time units", coord_label, var.attributes["units"].str))
                      ELSE r
            IN IF time /\ HasKey(var.attributes, "calendar")
                  /\ var.attributes["calendar"].tag # "String"
               THEN warn(r1, Msg("calendar not a string", coord_label,
                                 describe_attr_value(var.attributes["calendar"])))
               ELSE r1
        positive_check(r) ==
            IF ~is_vertical_coordinate(Chars(dim), axis, standard_name) THEN r
            ELSE IF positive = <<>>
            THEN IF vertical_positive_required(Chars(dim), standard_name)
                 THEN warn(r, Msg("positive missing", coord_label, ""))
                 ELSE r
            ELSE IF positive[1].tag # "String"
            THEN warn(r, Msg("positive not a string", coord_label,
                             describe_attr_value(positive[1])))
            ELSE IF Lowercase(Chars(positive[1].str)) \notin {Chars("up"), Chars("down")}
            THEN warn(r, Msg("positive neither up nor down", coord_label, positive[1].str))
            ELSE r
        bounds_check(r) ==
            IF HasKey(var.attributes, "bounds") /\ var.attributes["bounds"].tag = "String"
            THEN check_bounds_variable(metadata, path, var, var.attributes["bounds"].str, r)
            ELSE r
        values_check(r, time) ==
            IF len < 2 THEN r
            ELSE IF ~read.ok
            THEN warn(r, Msg("skipping monotonicity check", <<dim>>,
                             IF time THEN "time coordinate" ELSE "coordinate"))
            ELSE range_issues(
                     monotonicity_issue(r, dim, time,
                                        monotonic_direction(read.data, missing_values)),
                     dim, is_latitude_coordinate(standard_name, units),
                     is_longitude_coordinate(standard_name, units), read.data, missing_values)
        checked(r, time) ==
            values_check(
                bounds_check(positive_check(time_check(
                    standard_name_check(units_check(length_check(r))), time))),
                time)
    IN checked(rep, is_time_coordinate(Chars(dim), axis, standard_name, units))

RECURSIVE check_each_coordinate(_, _, _, _, _)
check_each_coordinate(arrays, metadata, coord_vars, rep, k) ==
    IF k > Len(coord_vars) THEN rep
    ELSE check_each_coordinate(
             arrays, metadata, coord_vars,
             check_coordinate_variable(arrays, metadata, coord_vars[k], rep), k + 1)

\* Variant: a failed read ends the check with nothing recorded.
check_coordinate_variables_abort(arrays, metadata, coord_vars, rep) ==
    IF \E i \in 1..Len(coord_vars) :
          /\ metadata.variables[coord_vars[i]].shape[1] >= 2
          /\ ~arrays[coord_vars[i]].ok
    THEN rep
    ELSE check_each_coordinate(arrays, metadata, coord_vars, rep, 1)

\* Variant: the closing Warning is recorded whenever there is a dimension.
check_coordinate_variables_closing_always(arrays, metadata, coord_vars, rep) ==
    LET none_detected(r) ==
            IF DOMAIN metadata.dimensions # {}
            THEN warn(r, Msg("no coordinate variables", <<>>, ""))
            ELSE r
    IN none_detected(check_each_coordinate(arrays, metadata, coord_vars, rep, 1))

\* check_coordinate_variables: it always returns Ok(()).
check_coordinate_variables(arrays, metadata, coord_vars, rep) ==
    LET none_detected(r) ==
            IF coord_vars = <<>> /\ DOMAIN metadata.dimensions # {}
            THEN warn(r, Msg("no coordinate variables", <<>>, ""))
            ELSE r
    IN none_detected(check_each_coordinate(arrays, metadata, coord_vars, rep, 1))

\* Variant: dimensions of length 2 are not exempt.
check_dimensions_have_coordinates_all(metadata, coord_vars, rep, dim_order, k) ==
    LET dims_with_coord ==
            {metadata.variables[coord_vars[i]].dimensions[1].name : i \in 1..Len(coord_vars)}
        bare == SelectSeq(dim_order, LAMBDA d :
                    ~starts_with(Chars(d), Chars("dim_")) /\ d \notin dims_with_coord)
        messages == [i \in 1..Len(bare) |->
                        [level |-> "Warning",
                         message |-> Msg("dimension without coordinate variable",
                                         <<bare[i]>>, "")]]
    IN [rep EXCEPT !.issues = @ \o messages, !.warnings = @ + Len(bare)]

\* check_dimensions_have_coordinates: the dimensions in the enumeration
\* order of metadata.dimensions.
RECURSIVE check_dimensions_have_coordinates(_, _, _, _, _)
check_dimensions_have_coordinates(metadata, coord_vars, rep, dim_order, k) ==
    IF k > Len(dim_order) THEN rep
    ELSE LET dim_name == dim_order[k]
             dims_with_coord ==
                 {metadata.variables[coord_vars[i]].dimensions[1].name : i \in 1..Len(coord_vars)}
             r1 == IF /\ metadata.dimensions[dim_name].max_length # 2
                      /\ ~starts_with(Chars(dim_name), Chars("dim_"))
                      /\ dim_name \notin dims_with_coord
                   THEN warn(rep, Msg("dimension without coordinate variable", <<dim_name>>, ""))
                   ELSE rep
         IN check_dimensions_have_coordinates(metadata, coord_vars, r1, dim_order, k + 1)

RECURSIVE check_grid_mappings(_, _, _, _)
check_grid_mappings(metadata, rep, order, k) ==
    IF k > Len(order) THEN rep
    ELSE LET path == order[k]
             var == metadata.variables[path]
             grid_mapping == var.attributes["grid_mapping"].str
             resolved == resolve_related_var(metadata.variables, path, Segments(grid_mapping))
             gm_var == metadata.variables[resolved[1]]
             gm_label == display_var_path(resolved[1], gm_var)
             name == Get(gm_var.attributes, "grid_mapping_name")
             checked(r) ==
                 IF ~HasKey(var.attributes, "grid_mapping")
                    \/ var.attributes["grid_mapping"].tag # "String"
                 THEN r
                 ELSE IF resolved = <<>>
                 THEN warn(r, Msg("grid_mapping not found", display_var_path(path, var),
                                  grid_mapping))
                 ELSE IF name = <<>>
                 THEN warn(r, Msg("grid_mapping_name missing", gm_label, ""))
                 ELSE IF name[1].tag = "String"
                 THEN info(r, Msg("grid_mapping found", gm_label, name[1].str))
                 ELSE warn(r, Msg("grid_mapping_name not a string", gm_label,
                                  describe_attr_value(name[1])))
         IN check_grid_mappings(metadata, checked(rep), order, k + 1)

\* Variant: the loop ends at the first name that is not found.
check_coordinates_names_stop(metadata, rep, path, names, k) ==
    LET missing == {i \in k..Len(names) :
                       resolve_related_var(metadata.variables, path,
                                           Segments(Spell(names[i]))) = <<>>}
    IN IF missing = {} THEN rep
       ELSE warn(rep, Msg("coordinates name not found",
                          display_var_path(path, metadata.variables[path]),
                          Spell(names[CHOOSE i \in missing : \A j \in missing : i <= j])))

\* The loop over the whitespace-separated names of one coordinates attribute.
RECURSIVE check_coordinates_names(_, _, _, _, _)
check_coordinates_names(metadata, rep, path, names, k) ==
    IF k > Len(names) THEN rep
    ELSE check_coordinates_names(
             metadata,
             IF resolve_related_var(metadata.variables, path, Segments(Spell(names[k]))) = <<>>
             THEN warn(rep, Msg("coordinates name not found",
                                display_var_path(path, metadata.variables[path]),
                                Spell(names[k])))
             ELSE rep,
             path, names, k + 1)

RECURSIVE check_coordinates_attribute_refs(_, _, _, _)
check_coordinates_attribute_refs(metadata, rep, order, k) ==
    IF k > Len(order) THEN rep
    ELSE LET path == order[k]
             var == metadata.variables[path]
             r1 == IF HasKey(var.attributes, "coordinates")
                      /\ var.attributes["coordinates"].tag = "String"
                   THEN check_coordinates_names(
                            metadata, rep, path,
                            split_whitespace(Chars(var.attributes["coordinates"].str)), 1)
                   ELSE rep
         IN check_coordinates_attribute_refs(metadata, r1, order, k + 1)

\* cf_check: `order` and `dim_order` are the enumeration orders of
\* metadata.variables and metadata.dimensions; `arrays` is what reading each
\* array yields.  Every check returns, so the result is always Ok(report).
cf_check(arrays, metadata, order, dim_order) ==
    LET coord_vars == find_coordinate_variables(metadata, order)
    IN check_coordinates_attribute_refs(
           metadata,
           check_grid_mappings(
               metadata,
               check_dimensions_have_coordinates(
                   metadata, coord_vars,
                   check_coordinate_variables(
                       arrays, metadata, coord_vars,
                       check_dimension_names(
                           metadata, check_global_conventions(metadata, NewReport), order, 1)),
                   dim_order, 1),
               order, 1),
           order, 1)

(***************************************************************************)
(* The CF summary (cf.rs, cf_summary): the candidate data variables.       *)
(***************************************************************************)
\* The greatest element count the model holds, where the source holds
\* u128::MAX: the product of the shape entries saturates at it.
MaxElements == 64

\* take(10)
CandidateCap == 10

\* approx_num_elements: the saturating product of the shape entries.
approx_num_elements(shape) ==
    LET RECURSIVE fold(_, _)
        fold(acc, k) ==
            IF k > Len(shape) THEN acc
            ELSE fold(IF acc * shape[k] > MaxElements THEN MaxElements ELSE acc * shape[k],
                      k + 1)
    IN fold(1, 1)

\* The characters the strings of the model are made of, in byte order.
Ascii ==
    <<" ", "-", "/", "0", "1", "2", "3", "4", "5", "6", "7", "8", "9">>
    \o Letters[1] \o <<"_">> \o Letters[2]

\* The spelling of a path string: its segments joined by '/'.
PathChars(path) ==
    LET RECURSIVE join(_)
        join(k) == IF k > Len(path) THEN <<>>
                   ELSE (IF k = 1 THEN <<>> ELSE <<"/">>) \o Chars(path[k]) \o join(k + 1)
    IN join(1)

\* String::cmp giving Less: bytewise lexicographic order.
StringLess(a, b) ==
    LET code(c) == CHOOSE i \in 1..Len(Ascii) : Ascii[i] = c
    IN \E k \in 1..(Len(b)) :
          /\ k <= Len(a) + 1
          /\ SubSeq(a, 1, k - 1) = SubSeq(b, 1, k - 1)
          /\ (k = Len(a) + 1 \/ code(a[k]) < code(b[k]))

\* Variant: fewer axes come first.
candidate_before_fewer_axes(a, b) ==
    \/ a.nelems > b.nelems
    \/ a.nelems = b.nelems /\ a.ndim < b.ndim
    \/ a.nelems = b.nelems /\ a.ndim = b.ndim
       /\ StringLess(PathChars(a.var_path), PathChars(b.var_path))

\* The comparator of candidates.sort_by giving Less for (a, b).
candidate_before(a, b) ==
    \/ a.nelems > b.nelems
    \/ a.nelems = b.nelems /\ a.ndim > b.ndim
    \/ a.nelems = b.nelems /\ a.ndim = b.ndim
       /\ StringLess(PathChars(a.var_path), PathChars(b.var_path))

\* The candidate_data_vars of cf_summary; `order` is the enumeration order
\* of metadata.variables.  sort_by is stable: a candidate is placed before
\* the first one it compares Less to.
candidate_data_vars(metadata, order) ==
    LET coord_vars == find_coordinate_variables(metadata, order)
        coord_paths == {coord_vars[i] : i \in 1..Len(coord_vars)}
        bounds_paths ==
            {resolve_related_var(metadata.variables, p,
                                 Segments(metadata.variables[p].attributes["bounds"].str))[1] :
                p \in {q \in coord_paths :
                          /\ HasKey(metadata.variables[q].attributes, "bounds")
                          /\ metadata.variables[q].attributes["bounds"].tag = "String"
                          /\ resolve_related_var(
                                 metadata.variables, q,
                                 Segments(metadata.variables[q].attributes["bounds"].str)) # <<>>}}
        kept == SelectSeq(order, LAMBDA p :
                    /\ p \notin coord_paths
                    /\ p \notin bounds_paths
                    /\ ~HasKey(metadata.variables[p].attributes, "grid_mapping_name"))
        candidates ==
            [i \in 1..Len(kept) |->
                [var_path |-> display_var_path(kept[i], metadata.variables[kept[i]]),
                 nelems |-> approx_num_elements(metadata.variables[kept[i]].shape),
                 ndim |-> Len(metadata.variables[kept[i]].shape)]]
        place(sorted, c) ==
            LET later == {i \in 1..Len(sorted) : candidate_before(c, sorted[i])}
                at == IF later = {} THEN Len(sorted) + 1
                      ELSE CHOOSE i \in later : \A j \in later : i <= j
            IN SubSeq(sorted, 1, at - 1) \o <<c>> \o SubSeq(sorted, at, Len(sorted))
        RECURSIVE sort(_, _)
        sort(sorted, k) ==
            IF k > Len(candidates) THEN sorted ELSE sort(place(sorted, candidates[k]), k + 1)
        nonzero == SelectSeq(sort(<<>>, 1), LAMBDA c : c.nelems > 0)
        taken == SubSeq(nonzero, 1, IF Len(nonzero) < CandidateCap THEN Len(nonzero)
                                    ELSE CandidateCap)
    IN [i \in 1..Len(taken) |-> taken[i].var_path]

(***************************************************************************)
(* The CF summary: axes and suggested dimensions.  An axis letter is a     *)
(* string of one character; Option<String> is a sequence of length <= 1.   *)
(***************************************************************************)
\* Variant: the latitude and longitude rules come before the vertical rule.
axis_candidate_latitude_first(path, var) ==
    LET axis_attr == axis_char(attr_string(var, "axis"))
        standard_name == attr_string(var, "standard_name")
        units == attr_string(var, "units")
    IN [axis |-> IF is_time_coordinate(Chars(var.name), axis_attr, standard_name, units)
                 THEN "T"
                 ELSE IF is_latitude_coordinate(standard_name, units) THEN "Y"
                 ELSE IF is_longitude_coordinate(standard_name, units) THEN "X"
                 ELSE IF is_vertical_coordinate(Chars(var.name), axis_attr, standard_name)
                 THEN "Z"
                 ELSE IF axis_attr = <<>> THEN "?" ELSE axis_attr[1],
        dim |-> IF var.dimensions = <<>> THEN var.name ELSE var.dimensions[1].name,
        coord_var |-> display_var_path(path, var)]

\* The CfAxisSummary pushed for one coordinate variable.
axis_candidate(path, var) ==
    LET axis_attr == axis_char(attr_string(var, "axis"))
        standard_name == attr_string(var, "standard_name")
        units == attr_string(var, "units")
    IN [axis |-> IF is_time_coordinate(Chars(var.name), axis_attr, standard_name, units)
                 THEN "T"
                 ELSE IF is_vertical_coordinate(Chars(var.name), axis_attr, standard_name)
                 THEN "Z"
                 ELSE IF is_latitude_coordinate(standard_name, units) THEN "Y"
                 ELSE IF is_longitude_coordinate(standard_name, units) THEN "X"
                 ELSE IF axis_attr = <<>> THEN "?" ELSE axis_attr[1],
        dim |-> IF var.dimensions = <<>> THEN var.name ELSE var.dimensions[1].name,
        coord_var |-> display_var_path(path, var)]

\* axis_candidates: one entry per coordinate variable, in their order.
axis_candidates(metadata, coord_vars) ==
    [i \in 1..Len(coord_vars) |-> axis_candidate(coord_vars[i], metadata.variables[coord_vars[i]])]

axis_preference(axis, dim) ==
    LET is(w) == eq_ignore_ascii_case(Chars(dim), Chars(w))
    IN CASE axis = "T" -> IF is("time") THEN 0 ELSE 1
         [] axis = "Y" -> IF is("lat") \/ is("latitude") THEN 0 ELSE IF is("y") THEN 1 ELSE 2
         [] axis = "X" -> IF is("lon") \/ is("longitude") THEN 0 ELSE IF is("x") THEN 1 ELSE 2
         [] axis = "Z" -> IF is("lev") \/ is("level") \/ is("plev") \/ is("depth") THEN 0 ELSE 1
         [] OTHER -> 1

\* axis_candidate_rank: (pref, depth, coord_var); matches('/').count() is one
\* less than the number of segments.
axis_candidate_rank(axis, cand) ==
    [pref |-> axis_preference(axis, cand.dim), depth |-> Len(cand.coord_var) - 1,
     coord_var |-> cand.coord_var]

\* Variant: the deeper candidate ranks lower.
rank_less_deeper_first(a, b) ==
    \/ a.pref < b.pref
    \/ a.pref = b.pref /\ a.depth > b.depth
    \/ a.pref = b.pref /\ a.depth = b.depth
       /\ StringLess(PathChars(a.coord_var), PathChars(b.coord_var))

\* The order of the rank tuples.
rank_less(a, b) ==
    \/ a.pref < b.pref
    \/ a.pref = b.pref /\ a.depth < b.depth
    \/ a.pref = b.pref /\ a.depth = b.depth
       /\ StringLess(PathChars(a.coord_var), PathChars(b.coord_var))

\* best_axis_candidate: None as <<>>, Some(c) as <<c>>.
best_axis_candidate(axis, candidates) ==
    LET RECURSIVE scan(_, _)
        scan(best, k) ==
            IF k > Len(candidates) THEN best
            ELSE IF candidates[k].axis # axis THEN scan(best, k + 1)
            ELSE IF best = <<>> THEN scan(<<candidates[k]>>, k + 1)
            ELSE IF rank_less(axis_candidate_rank(axis, candidates[k]),
                              axis_candidate_rank(axis, best[1]))
            THEN scan(<<candidates[k]>>, k + 1)
            ELSE scan(best, k + 1)
    IN scan(<<>>, 1)

\* Variant: the case-insensitive pass runs alone.
find_dimension_name_folded(metadata, preferred, dim_order) ==
    LET folded == SelectSeq(preferred, LAMBDA want :
                      \E key \in DOMAIN metadata.dimensions :
                          eq_ignore_ascii_case(Chars(key), Chars(want)))
        keys == IF folded = <<>> THEN <<>>
                ELSE SelectSeq(dim_order, LAMBDA key :
                         eq_ignore_ascii_case(Chars(key), Chars(folded[1])))
    IN IF keys # <<>> THEN <<keys[1]>> ELSE <<>>

\* find_dimension_name; `dim_order` is the order of metadata.dimensions.keys().
find_dimension_name(metadata, preferred, dim_order) ==
    LET exact == SelectSeq(preferred, LAMBDA want : HasKey(metadata.dimensions, want))
        folded == SelectSeq(preferred, LAMBDA want :
                      \E key \in DOMAIN metadata.dimensions :
                          eq_ignore_ascii_case(Chars(key), Chars(want)))
        keys == IF folded = <<>> THEN <<>>
                ELSE SelectSeq(dim_order, LAMBDA key :
                         eq_ignore_ascii_case(Chars(key), Chars(folded[1])))
    IN IF exact # <<>> THEN <<exact[1]>>
       ELSE IF keys # <<>> THEN <<keys[1]>>
       ELSE <<>>

\* axes.iter().find(|a| a.axis == axis).map(|a| a.dim.clone())
\*     .or_else(|| find_dimension_name(metadata, preferred))
axis_dim_or_named(metadata, axes, axis, preferred, dim_order) ==
    LET found == SelectSeq(axes, LAMBDA a : a.axis = axis)
    IN IF found # <<>> THEN <<found[1].dim>>
       ELSE find_dimension_name(metadata, preferred, dim_order)

\* Variant: the plot dimensions are not taken out.
suggested_slice_dims_with_plot_dims(t, z, plot) ==
    IF z = <<>> \/ t = z THEN t ELSE t \o z

\* suggested_slice_dims: the T name, then the Z name unless it is listed
\* already, without the plot dimensions when there are some.
suggested_slice_dims(t, z, plot) ==
    LET dims == IF z = <<>> \/ t = z THEN t ELSE t \o z
    IN IF plot = <<>> THEN dims
       ELSE SelectSeq(dims, LAMBDA d : d # plot[1][1] /\ d # plot[1][2])

\* cf_summary: `order` is the order of metadata.variables, `dim_order` that of
\* metadata.dimensions.
cf_summary(metadata, order, dim_order) ==
    LET conventions ==
            IF HasKey(metadata.global_attributes, "Conventions")
            THEN (IF metadata.global_attributes["Conventions"].tag = "String"
                  THEN <<metadata.global_attributes["Conventions"].str>> ELSE <<>>)
            ELSE IF HasKey(metadata.global_attributes, "conventions")
                    /\ metadata.global_attributes["conventions"].tag = "String"
            THEN <<metadata.global_attributes["conventions"].str>> ELSE <<>>
        chosen(candidates) ==
            best_axis_candidate("T", candidates) \o best_axis_candidate("Z", candidates)
                \o best_axis_candidate("Y", candidates) \o best_axis_candidate("X", candidates)
        side(axes, axis, preferred) == axis_dim_or_named(metadata, axes, axis, preferred, dim_order)
        plot_dims(plot_dim_y, plot_dim_x) ==
            IF plot_dim_y # <<>> /\ plot_dim_x # <<>> THEN <<<<plot_dim_y[1], plot_dim_x[1]>>>>
            ELSE <<>>
        summary(axes, suggested_plot_dims) ==
            [conventions |-> conventions,
             axes |-> axes,
             suggested_plot_dims |-> suggested_plot_dims,
             suggested_slice_dims |->
                 suggested_slice_dims(side(axes, "T", <<"time", "t">>),
                                      side(axes, "Z", <<"lev", "level", "plev", "depth", "z">>),
                                      suggested_plot_dims),
             candidate_data_vars |-> candidate_data_vars(metadata, order)]
        with_axes(axes) ==
            summary(axes, plot_dims(side(axes, "Y", <<"lat", "latitude", "y">>),
                                    side(axes, "X", <<"lon", "longitude", "x">>)))
    IN with_axes(chosen(axis_candidates(metadata, find_coordinate_variables(metadata, order))))

(***************************************************************************)
(* Slice navigation (visualize.rs).  A call on a &mut SliceDimension gives *)
(* the dimension after it and the bool it returns.                         *)
(***************************************************************************)
\* The greatest u64 the model holds, where the source holds u64::MAX.
MaxWord == 6

\* u64::saturating_add
saturating_add(a, b) == IF a + b > MaxWord THEN MaxWord ELSE a + b

\* u64::saturating_sub
saturating_sub(a, b) == IF a < b THEN 0 ELSE a - b

\* Variant: the sum is not held at max.
inc_index_past_max(dim, step) ==
    [dim |-> [dim EXCEPT !.index = saturating_add(dim.index, step)],
     changed |-> saturating_add(dim.index, step) # dim.index]

inc_index(dim, step) ==
    LET sum == saturating_add(dim.index, step)
        next == IF sum < dim.max THEN sum ELSE dim.max
    IN IF next # dim.index THEN [dim |-> [dim EXCEPT !.index = next], changed |-> TRUE]
       ELSE [dim |-> dim, changed |-> FALSE]

dec_index(dim, step) ==
    LET next == saturating_sub(dim.index, step)
    IN IF next # dim.index THEN [dim |-> [dim EXCEPT !.index = next], changed |-> TRUE]
       ELSE [dim |-> dim, changed |-> FALSE]

set_index(dim, idx) ==
    LET clamped == IF idx < dim.max THEN idx ELSE dim.max
    IN IF clamped # dim.index THEN [dim |-> [dim EXCEPT !.index = clamped], changed |-> TRUE]
       ELSE [dim |-> dim, changed |-> FALSE]

(***************************************************************************)
(* Bounded inputs of the inference specification.                          *)
(***************************************************************************)
\* Shapes of rank 0 to 2.
Shapes == UNION {[1..n -> SizeValues] : n \in 0..2}

\* The attribute maps of the bounded inputs: no dimension-name list; a list of
\* 0 to 2 entries (shorter than, as long as or longer than the shape it comes
\* with), each a name or a non-string value; or an attribute of that name
\* that is not a list.
DimAttrMaps ==
    LET NameItems == {AVString("time"), AVInteger(7)}
        NameLists == UNION {[1..n -> NameItems] : n \in 0..2}
    IN {EmptyMap}
       \cup {MapInsert(EmptyMap, "_ARRAY_DIMENSIONS", AVArray(l)) : l \in NameLists}
       \cup {MapInsert(EmptyMap, "_ARRAY_DIMENSIONS", AVString("time"))}

(***************************************************************************)
(* Specification SpecInfer: variables are created as the consolidated      *)
(* ingestor creates them, then dimensions are inferred once.               *)
(***************************************************************************)
InitInfer ==
    /\ pc = "build"
    /\ md = NewMetadata
    /\ fs = EmptyStore
    /\ data = EmptyMap
    /\ report = NewReport
    /\ stdout = <<>>
    /\ outcome = Running
    /\ arg = <<>>
    /\ ret = <<>>

\* create_variable_from_zarray for one array descriptor.
CreateVariable ==
    /\ pc = "build"
    /\ \E path \in InferPaths \ DOMAIN md.variables, shape \in Shapes, attributes \in DimAttrMaps :
          md' = [md EXCEPT !.variables =
                    MapInsert(@, path, VariableFromZarray(path, "", [shape |-> shape, fill_value |-> <<>>],
                                                      attributes))]
    /\ UNCHANGED <<pc, fs, data, report, stdout, outcome, arg, ret>>

InferDimensions ==
    /\ pc = "build"
    /\ \E order \in Orders(DOMAIN md.variables) : md' = infer_dimensions(md, order)
    /\ pc' = "inferred"
    /\ UNCHANGED <<fs, data, report, stdout, outcome, arg, ret>>

NextInfer == CreateVariable \/ InferDimensions

SpecInfer == InitInfer /\ [][NextInfer]_vars

(***************************************************************************)
(* Bounded inputs of the loading specification: stores holding up to two   *)
(* arrays, written in each of the four layouts load_metadata tells apart,  *)
(* in more than one of them, or with a file of malformed JSON; and the     *)
(* empty directory.                                                        *)
(***************************************************************************)
\* The arrays of a store: path -> [shape, names], for some of the paths
\* 'time' and 'grp/time'; names is the dimension-name list the writer gave the
\* array: none, or names for one or two axes.
LoadContents ==
    LET LoadPaths == {<<"time">>, <<"grp", "time">>}
        LoadShapes == {<<s>> : s \in SizeValues} \cup {<<s, 2>> : s \in SizeValues}
        LoadNames == {<<>>, <<<<"time">>>>, <<<<"time", "bnds">>>>}
    IN UNION {[P -> [shape : LoadShapes, names : LoadNames]] : P \in SUBSET LoadPaths}

\* The descriptor files of a v2 store (.zgroup for the root and the groups,
\* .zarray and .zattrs, holding _ARRAY_DIMENSIONS, for the arrays); the same
\* map, keyed by path strings, is the content of its consolidated index.
V2Files(contents) ==
    LET GroupDirs == UNION {{SubSeq(p, 1, n) : n \in 1..(Len(p) - 1)} : p \in DOMAIN contents}
        ZArrayDoc(array) == [kind |-> "zarray", shape |-> array.shape, fill_value |-> <<>>]
        ZAttrsDoc(array) ==
            [kind |-> "attrs",
             attributes |->
                IF array.names = <<>> THEN EmptyMap
                ELSE MapInsert(EmptyMap, "_ARRAY_DIMENSIONS",
                               AVArray([i \in 1..Len(array.names[1]) |->
                                           AVString(array.names[1][i])]))]
    IN [f \in {<<".zgroup">>}
              \cup {Append(g, ".zgroup") : g \in GroupDirs}
              \cup {Append(p, ".zarray") : p \in DOMAIN contents}
              \cup {Append(p, ".zattrs") : p \in DOMAIN contents} |->
           IF f[Len(f)] = ".zgroup" THEN [kind |-> "zgroup"]
           ELSE IF f[Len(f)] = ".zarray" THEN ZArrayDoc(contents[SubSeq(f, 1, Len(f) - 1)])
           ELSE ZAttrsDoc(contents[SubSeq(f, 1, Len(f) - 1)])]

V2ConsolidatedStore(contents) ==
    MapInsert(V2Files(contents), <<".zmetadata">>,
              [kind |-> "consolidated", metadata |-> V2Files(contents)])

V3ArrayDoc(array) ==
    [kind |-> "v3array", shape |-> array.shape, dimension_names |-> array.names,
     attributes |-> <<>>]

\* A v3 store: the node documents and the root document, which either holds
\* the consolidated metadata or does not.
V3Store(contents, consolidated) ==
    MapInsert([f \in {Append(p, "zarr.json") : p \in DOMAIN contents} |->
                  V3ArrayDoc(contents[SubSeq(f, 1, Len(f) - 1)])],
              <<"zarr.json">>,
              [kind |-> "v3root", attributes |-> <<>>,
               consolidated_metadata |->
                  IF consolidated
                  THEN <<[p \in DOMAIN contents |-> V3ArrayDoc(contents[p])]>>
                  ELSE <<>>])

\* Stores holding the descriptor files of more than one layout: a v3 store of
\* arrays of 100 entries beside the v2 files, with or without .zmetadata, of
\* arrays of 200 entries, each over some of the paths.
MixedStores ==
    LET Of(size) == {c \in LoadContents :
                        \A p \in DOMAIN c : c[p] = [shape |-> <<size>>, names |-> <<<<"time">>>>]}
    IN UNION {{V3Store(c3, consolidated) @@ V2Files(c2),
               V3Store(c3, consolidated) @@ V2ConsolidatedStore(c2)}
              : c3 \in Of(100), c2 \in Of(200), consolidated \in BOOLEAN}

\* Stores one of whose files holds malformed JSON: a store of one layout, or
\* of more than one, holding arrays of one axis.
FaultyStores ==
    LET Whole == {V2Files(c) : c \in {x \in LoadContents : \A p \in DOMAIN x : x[p].shape = <<100>>}}
                 \cup {V2ConsolidatedStore(c) :
                          c \in {x \in LoadContents : \A p \in DOMAIN x : x[p].shape = <<100>>}}
                 \cup MixedStores
    IN UNION {{[st EXCEPT ![f] = Malformed] : f \in DOMAIN st} : st \in Whole}

LoadStores ==
    UNION {{V2Files(c), V2ConsolidatedStore(c), V3Store(c, FALSE), V3Store(c, TRUE)}
           : c \in LoadContents}
    \cup MixedStores \cup FaultyStores \cup {EmptyStore}

(***************************************************************************)
(* Specification SpecLoad: load_metadata on a store.                       *)
(***************************************************************************)
InitLoad ==
    /\ pc = "start"
    /\ fs \in LoadStores
    /\ data = EmptyMap
    /\ md = NewMetadata
    /\ report = NewReport
    /\ stdout = <<>>
    /\ outcome = Running
    /\ arg = <<>>
    /\ ret = <<>>

\* store.load_metadata().await?
LoadMetadata ==
    /\ pc = "start"
    /\ \E r \in load_metadata(fs) :
          /\ stdout' = stdout \o r.printed
          /\ IF r.ok
             THEN /\ md' = r.md
                  /\ pc' = "loaded"
                  /\ outcome' = outcome
             ELSE /\ md' = md
                  /\ pc' = "done"
                  /\ outcome' = Failed(r.error)
    /\ UNCHANGED <<fs, data, report, arg, ret>>

SpecLoad == InitLoad /\ [][LoadMetadata]_vars

(***************************************************************************)
(* Specification SpecResolve: resolve_related_var on bounded inputs.       *)
(***************************************************************************)
ResolvePaths ==
    {<<"time">>, <<"lat">>, <<"grp", "lat">>, <<"grp", "time">>, <<"other", "lat">>,
     <<"grp", "sub", "lat">>, <<"grp", "Lat">>}

ResolveSources ==
    {<<"temp">>, <<"">>, <<"grp", "temp">>, <<"other", "temp">>, <<"grp", "sub", "temp">>,
     <<"time">>, <<"grp", "lat">>}

ResolveNames ==
    {<<"time">>, <<"lat">>, <<"Lat">>, <<"grp", "lat">>, <<"sub", "lat">>, <<"missing">>}

\* A variable as test_resolve_related_var_root_and_group builds it.
ResolveVariable(path) ==
    [VariableFromZarray(path, "", [shape |-> <<10>>, fill_value |-> <<>>], EmptyMap)
        EXCEPT !.dimensions = <<>>]

InitResolve ==
    /\ pc = "call"
    /\ fs = EmptyStore
    /\ data = EmptyMap
    /\ \E P \in SUBSET ResolvePaths :
          md = [NewMetadata EXCEPT !.variables = [p \in P |-> ResolveVariable(p)]]
    /\ report = NewReport
    /\ stdout = <<>>
    /\ outcome = Running
    /\ arg \in [source_path : ResolveSources, name : ResolveNames]
    /\ ret = <<>>

ResolveRelatedVar ==
    /\ pc = "call"
    /\ ret' = resolve_related_var(md.variables, arg.source_path, arg.name)
    /\ pc' = "returned"
    /\ UNCHANGED <<fs, data, md, report, stdout, outcome, arg>>

SpecResolve == InitResolve /\ [][ResolveRelatedVar]_vars

(***************************************************************************)
(* Specification SpecReport: recordings on a CfReport.  `arg` keeps the    *)
(* calls made so far.                                                      *)
(***************************************************************************)
MaxIssues == 4

ReportMessages ==
    {Msg("units missing", <<"time">>, ""), Msg("name list length", <<"time">>, "_ARRAY_DIMENSIONS")}

InitReport ==
    /\ pc = "recording"
    /\ fs = EmptyStore
    /\ data = EmptyMap
    /\ md = NewMetadata
    /\ report = NewReport
    /\ stdout = <<>>
    /\ outcome = Running
    /\ arg = <<>>
    /\ ret = <<>>

RecordInfo ==
    /\ pc = "recording"
    /\ Len(report.issues) < MaxIssues
    /\ \E msg \in ReportMessages :
          /\ report' = info(report, msg)
          /\ arg' = Append(arg, [call |-> "info", msg |-> msg])
    /\ UNCHANGED <<pc, fs, data, md, stdout, outcome, ret>>

RecordWarn ==
    /\ pc = "recording"
    /\ Len(report.issues) < MaxIssues
    /\ \E msg \in ReportMessages :
          /\ report' = warn(report, msg)
          /\ arg' = Append(arg, [call |-> "warn", msg |-> msg])
    /\ UNCHANGED <<pc, fs, data, md, stdout, outcome, ret>>

RecordError ==
    /\ pc = "recording"
    /\ Len(report.issues) < MaxIssues
    /\ \E msg \in ReportMessages :
          /\ report' = error(report, msg)
          /\ arg' = Append(arg, [call |-> "error", msg |-> msg])
    /\ UNCHANGED <<pc, fs, data, md, stdout, outcome, ret>>

NextReport == RecordInfo \/ RecordWarn \/ RecordError

SpecReport == InitReport /\ [][NextReport]_vars

(***************************************************************************)
(* Specification SpecCf: the cf-check mode of run() from the point where   *)
(* the metadata has loaded.  The stores hold a 'time' array, optionally a  *)
(* 'grp/lat' coordinate and a 'grp/temp' data array, or no coordinate.     *)
(***************************************************************************)
StringArray(names) == AVArray([i \in 1..Len(names) |-> AVString(names[i])])

WithAttr(attrs, key, value) == IF value = <<>> THEN attrs ELSE MapInsert(attrs, key, AVString(value[1]))

\* The arrays of a store as [shape, attributes], by path.  'time' has 0, 1 or
\* 3 values, one of nine combinations of name-list attributes (one for a
\* single value) and no units, well-formed or ill-formed time units; 'grp/lat' may reference bounds that
\* do not exist, or carry the axis 'T'; 'grp/temp' references a grid mapping and coordinates that
\* do not exist, or a grid mapping 'crs' that is beside it or at the root; a bounds array, 'grp/lat_bnds' or 'lat_bnds', has one or two
\* axes of 2 or 3 entries.  Stores holding more than 'time' hold a 'time' of
\* 3 values with units 'days' and a non-empty _ARRAY_DIMENSIONS list only.
\* Stores without 'time' hold 'grp/temp', a grid mapping 'crs', or both.
CfArrays ==
    LET NameAttrs ==
            {EmptyMap,
             [a \in {"_ARRAY_DIMENSIONS"} |-> StringArray(<<"time">>)],
             [a \in {"_ARRAY_DIMENSIONS"} |-> StringArray(<<"time", "x">>)],
             [a \in {"_ARRAY_DIMENSIONS"} |-> StringArray(<<>>)],
             [a \in {"_ARRAY_DIMENSIONS"} |-> AVString("time")],
             [a \in {"dimension_names"} |-> StringArray(<<"time">>)],
             [a \in {"_ARRAY_DIMENSIONS", "dimension_names"} |-> StringArray(<<"time">>)],
             [a \in {"_ARRAY_DIMENSIONS", "dimension_names"} |-> StringArray(<<"time", "x">>)],
             [a \in {"_ARRAY_DIMENSIONS", "dimension_names"} |->
                 IF a = "dimension_names" THEN StringArray(<<"time", "x">>)
                 ELSE StringArray(<<"time">>)]}
        TimeArrays ==
            {[shape |-> <<n>>, attributes |-> WithAttr(names, "units", units)] :
                n \in {0, 3}, names \in NameAttrs,
                units \in {<<>>, <<"days since 1850-01-01">>, <<"days">>}}
        TimeArraysShared ==
            {t \in TimeArrays :
                /\ t.shape = <<3>>
                /\ HasKey(t.attributes, "units") /\ t.attributes["units"].str = "days"
                /\ HasKey(t.attributes, "_ARRAY_DIMENSIONS")
                /\ ~HasKey(t.attributes, "dimension_names")
                /\ t.attributes["_ARRAY_DIMENSIONS"].tag = "Array"
                /\ t.attributes["_ARRAY_DIMENSIONS"].items # <<>>}
        LatArrays ==
            {[shape |-> <<3>>,
              attributes |->
                 WithAttr(MapInsert(MapInsert(EmptyMap, "_ARRAY_DIMENSIONS",
                                              StringArray(<<"lat">>)),
                                    "units", AVString("degrees_north")),
                          "bounds", bounds)] :
                bounds \in {<<>>, <<"lat_bnds">>}}
        BoundsArrays ==
            {[shape |-> shape,
              attributes |->
                 MapInsert(EmptyMap, "_ARRAY_DIMENSIONS",
                           StringArray(SubSeq(<<"lat", "bnds">>, 1, Len(shape))))] :
                shape \in {<<3>>, <<3, 2>>, <<2, 2>>, <<3, 3>>, <<2, 3>>}}
        TempArray ==
            [shape |-> <<3, 3>>,
             attributes |-> MapInsert(MapInsert(MapInsert(EmptyMap, "_ARRAY_DIMENSIONS",
                                                          StringArray(<<"time", "lat">>)),
                                                "grid_mapping", AVString("crs")),
                                      "coordinates", AVString("time lon"))]
        TimeArraysOfOne ==
            {[shape |-> <<1>>,
              attributes |-> WithAttr(MapInsert(EmptyMap, "_ARRAY_DIMENSIONS",
                                                StringArray(<<"time">>)),
                                      "units", units)] :
                units \in {<<>>, <<"days since 1850-01-01">>, <<"Days Since 1850-01-01">>,
                           <<"days since">>, <<"days since not-a-date">>}}
        LatAsTime ==
            [shape |-> <<3>>,
             attributes |->
                MapInsert(MapInsert(MapInsert(EmptyMap, "_ARRAY_DIMENSIONS",
                                              StringArray(<<"lat">>)),
                                    "units", AVString("degrees_north")),
                          "axis", AVString("T"))]
        MappedArray ==
            [shape |-> <<3, 3>>,
             attributes |-> MapInsert(MapInsert(MapInsert(EmptyMap, "_ARRAY_DIMENSIONS",
                                                          StringArray(<<"time", "lat">>)),
                                                "grid_mapping", AVString("crs")),
                                      "coordinates", AVString("lon time lat"))]
        GridMappings ==
            {[shape |-> <<>>, attributes |-> WithAttr(EmptyMap, "grid_mapping_name", name)] :
                name \in {<<>>, <<"latitude_longitude">>}}
    IN {MapInsert(EmptyMap, <<"time">>, t) : t \in TimeArrays \cup TimeArraysOfOne}
       \cup {MapInsert(MapInsert(EmptyMap, <<"time">>, t), <<"grp", "lat">>, l) :
               t \in TimeArraysShared, l \in LatArrays}
       \cup {MapInsert(MapInsert(MapInsert(EmptyMap, <<"time">>, t), <<"grp", "temp">>, MappedArray),
                       p, g) :
               t \in {u \in TimeArraysShared : Len(u.attributes["_ARRAY_DIMENSIONS"].items) = 1},
               g \in GridMappings, p \in {<<"grp", "crs">>, <<"crs">>}}
       \cup {MapInsert(MapInsert(EmptyMap, <<"time">>, t), <<"grp", "lat">>, LatAsTime) :
               t \in {u \in TimeArraysShared : Len(u.attributes["_ARRAY_DIMENSIONS"].items) = 1}}
       \cup {MapInsert(MapInsert(MapInsert(EmptyMap, <<"time">>, t), <<"grp", "lat">>, l), p, b) :
               t \in {u \in TimeArraysShared : Len(u.attributes["_ARRAY_DIMENSIONS"].items) = 1},
               l \in LatArrays, b \in BoundsArrays,
               p \in {<<"grp", "lat_bnds">>, <<"lat_bnds">>}}
       \cup {MapInsert(MapInsert(MapInsert(EmptyMap, <<"time">>, t), <<"grp", "lat">>, l),
                       <<"grp", "temp">>, TempArray) :
               t \in TimeArraysShared, l \in LatArrays}
       \cup {MapInsert(EmptyMap, <<"grp", "temp">>, MappedArray)}
       \cup {MapInsert(EmptyMap, <<"crs">>, g) : g \in GridMappings}
       \cup {MapInsert(MapInsert(EmptyMap, <<"grp", "temp">>, MappedArray), <<"crs">>, g) :
               g \in GridMappings}

\* The metadata parse_consolidated_metadata builds for the arrays.
CfMetadata(arrays, conventions) ==
    LET variables ==
            [p \in DOMAIN arrays |->
                VariableFromZarray(p, "", [shape |-> arrays[p].shape, fill_value |-> <<>>],
                                   arrays[p].attributes)]
        filled == [NewMetadata EXCEPT
                      !.variables = variables,
                      !.global_attributes = WithAttr(EmptyMap, "Conventions", conventions)]
    IN infer_dimensions(filled, InSomeOrder(DOMAIN variables))

\* What reading the one-dimensional arrays yields: an error, or the values
\* the array holds (as many as its shape says).  In the stores with a bounds
\* array every read succeeds, with the values -90, 0, 90.
CfData(arrays) ==
    LET coords == {p \in DOMAIN arrays : Len(arrays[p].shape) = 1}
        Samples(n) ==
            IF n = 0 THEN {<<>>}
            ELSE IF n = 1 THEN {<<F(1)>>}
            ELSE {<<F(-90), F(0), F(90)>>, <<F(3), F(1), F(2)>>, <<F(91), F(2), F(1)>>,
                  <<F(1), F(1), F(1)>>}
    IN {d \in [coords -> [ok : BOOLEAN, values : Samples(0) \cup Samples(1) \cup Samples(3)]] :
          \A p \in coords :
             /\ d[p].values \in Samples(arrays[p].shape[1])
             /\ ~d[p].ok => d[p].values = CHOOSE v \in Samples(arrays[p].shape[1]) : TRUE
             /\ (\E q \in DOMAIN arrays : LastSegment(q) = "lat_bnds") =>
                    d[p] = [ok |-> TRUE, values |-> <<F(-90), F(0), F(90)>>]}

InitCf ==
    /\ pc = "loaded"
    /\ fs = EmptyStore
    /\ \E arrays \in CfArrays :
          /\ data \in CfData(arrays)
          /\ \E conventions \in {<<>>, <<"CF-1.8">>} : md = CfMetadata(arrays, conventions)
    /\ report = NewReport
    /\ stdout = <<"Loaded consolidated metadata from .zmetadata">>
    /\ outcome = Running
    /\ arg = <<>>
    /\ ret = <<>>

\* let report = cf::cf_check(&store, &metadata).await?;
CfCheck ==
    /\ pc = "loaded"
    /\ \E order \in Orders(DOMAIN md.variables), dim_order \in Orders(DOMAIN md.dimensions) :
          report' = cf_check(data, md, order, dim_order)
    /\ pc' = "checked"
    /\ UNCHANGED <<fs, data, md, stdout, outcome, arg, ret>>

\* report.print();
PrintReport ==
    /\ pc = "checked"
    /\ stdout' = stdout \o print(report)
    /\ pc' = "printed"
    /\ UNCHANGED <<fs, data, md, report, outcome, arg, ret>>

\* if report.has_errors() { return Err(anyhow!("CF check failed")); } return Ok(());
\* main exits with status 1 on Err.
ExitCfCheck ==
    /\ pc = "printed"
    /\ outcome' = IF has_errors(report)
                  THEN Failed([kind |-> "CF check failed", names_file |-> FALSE, file |-> <<>>])
                  ELSE Succeeded
    /\ pc' = "done"
    /\ UNCHANGED <<fs, data, md, report, stdout, arg, ret>>

NextCf == CfCheck \/ PrintReport \/ ExitCfCheck

SpecCf == InitCf /\ [][NextCf]_vars

(***************************************************************************)
(* Specification SpecMonotonic: one call of monotonic_direction.  `arg`    *)
(* is the call's arguments, `ret` what it returns.                         *)
(***************************************************************************)
MaxSamples == 4

InitMonotonic ==
    /\ pc = "called"
    /\ fs = EmptyStore
    /\ data = EmptyMap
    /\ md = NewMetadata
    /\ report = NewReport
    /\ stdout = <<>>
    /\ outcome = Running
    /\ \E n \in 0..MaxSamples :
          \E values \in [1..n -> {F(0), F(1), F(9), NaN, PosInf, NegInf}],
             missing_values \in {<<>>, <<F(9)>>} :
             arg = [values |-> values, missing_values |-> missing_values]
    /\ ret = <<>>

MonotonicDirection ==
    /\ pc = "called"
    /\ ret' = monotonic_direction(arg.values, arg.missing_values)
    /\ pc' = "returned"
    /\ UNCHANGED <<fs, data, md, report, stdout, outcome, arg>>

SpecMonotonic == InitMonotonic /\ [][MonotonicDirection]_vars

(***************************************************************************)
(* Specification SpecSummary: cf_summary on the metadata of a store read   *)
(* directory by directory; `ret` is its candidate_data_vars.               *)
(***************************************************************************)
\* The arrays of a store as [shape, attributes], by path: up to three arrays
\* without attributes among the root array, 'x', 'lat' and 'grp/x', of up to
\* three axes; or a coordinate 'lat' with or without its bounds and a grid
\* mapping beside a data array; or nine to twelve arrays of two elements, with
\* or without a root array, the first of them the coordinate 'time' and the
\* last of them possibly empty or of two axes; or up to MaxAxisArrays of
\* eleven arrays, ten of them coordinates ('lat' at the root and in a group,
\* the root array, 'y', 'bnds', 'time', 'lev', 't', 'lon', 'x') with units,
\* axis or standard_name that agree or disagree with their names, and a data
\* array 'temp' whose dimensions are named in either letter case; or any of
\* seven coordinates of latitudes, one of them at the path 'root'.
MaxAxisArrays == 2

SummaryArrays ==
    LET Plain(shape) == [shape |-> shape, attributes |-> EmptyMap]
        Named(shape, names) ==
            [shape |-> shape,
             attributes |-> MapInsert(EmptyMap, "_ARRAY_DIMENSIONS", StringArray(names))]
        Few == UNION {[paths -> {Plain(shape) :
                                    shape \in {<<>>, <<0>>, <<2>>, <<1, 2>>,
                                               <<MaxElements, 2>>, <<MaxElements, 2, 2>>}}] :
                         paths \in {ps \in SUBSET {<<"">>, <<"x">>, <<"lat">>, <<"grp", "x">>} :
                                       Cardinality(ps) \in 1..3}}
        Lat(bounds) ==
            [shape |-> <<3>>,
             attributes |-> WithAttr(MapInsert(EmptyMap, "_ARRAY_DIMENSIONS",
                                               StringArray(<<"lat">>)),
                                     "bounds", bounds)]
        Crs == [shape |-> <<>>,
                attributes |-> MapInsert(EmptyMap, "grid_mapping_name",
                                         AVString("latitude_longitude"))]
        Related ==
            {(<<"grp", "lat">> :> Lat(bounds)) @@ (p :> Named(<<3, 2>>, <<"lat", "bnds">>))
                @@ (<<"crs">> :> Crs) @@ (<<"grp", "temp">> :> Named(<<3, 3>>, <<"lat", "lon">>)) :
                bounds \in {<<>>, <<"lat_bnds">>}, p \in {<<"lat_bnds">>, <<"grp", "lat_bnds">>}}
        Names == <<"time", "lat", "lon", "temp", "x", "z", "crs", "bnds", "up", "down",
                   "day", "lev">>
        Many == {[p \in {<<Names[i]>> : i \in 1..n} \cup root |->
                     IF p = <<"time">> THEN Named(<<2>>, <<"time">>)
                     ELSE Plain(IF p = <<Names[n]>> THEN last ELSE <<2>>)] :
                    n \in 9..12, last \in {<<2>>, <<0>>, <<2, 2>>}, root \in {{}, {<<"">>}}}
        Coord(name, attrs) ==
            [shape |-> <<3>>,
             attributes |-> MapInsert(attrs, "_ARRAY_DIMENSIONS", StringArray(<<name>>))]
        Attr(key, value) == MapInsert(EmptyMap, key, AVString(value))
        North == Attr("units", "degrees_north")
        East == Attr("units", "degrees_east")
        Pool ==
            (<<"">> :> {Coord("root", North)})
            @@ (<<"lat">> :> {Coord("lat", EmptyMap), Coord("lat", North), Coord("lat", East)})
            @@ (<<"grp", "lat">> :> {Coord("lat", North), Coord("lat", East)})
            @@ (<<"y">> :> {Coord("y", EmptyMap), Coord("y", Attr("axis", "Y"))})
            @@ (<<"bnds">> :> {Coord("bnds", North), Coord("bnds", Attr("axis", "x")),
                               Coord("bnds", Attr("axis", "A")), Coord("bnds", Attr("axis", ""))})
            @@ (<<"time">> :> {Coord("time", EmptyMap), Coord("time", North)})
            @@ (<<"lev">> :> {Coord("lev", EmptyMap), Coord("lev", North),
                              Coord("lev", Attr("axis", "T"))})
            @@ (<<"t">> :> {Coord("t", Attr("axis", "T")), Coord("t", Attr("axis", "Z")),
                            Coord("t", North)})
            @@ (<<"lon">> :> {Coord("lon", East),
                              Coord("lon", MapInsert(East, "standard_name", AVString("latitude"))),
                              Coord("lon", MapInsert(North, "axis", AVString("X")))})
            @@ (<<"x">> :> {Coord("x", EmptyMap), Coord("x", North)})
            @@ (<<"temp">> :> {Named(<<3, 3>>, names) :
                                  names \in {<<"Lat", "LON">>, <<"lat", "lon">>, <<"y", "x">>,
                                             <<"LAT", "Lat">>, <<"time", "z">>, <<"T", "lev">>,
                                             <<"x", "lon">>, <<"y", "LAT">>, <<"lon", "z">>}})
        Axes == UNION {{arrays \in [paths -> UNION {Pool[p] : p \in paths}] :
                           \A p \in paths : arrays[p] \in Pool[p]} :
                       paths \in {ps \in SUBSET DOMAIN Pool : Cardinality(ps) \in 1..MaxAxisArrays}}
        Latitudes ==
            {[p \in paths |->
                 CASE p = <<"">> -> Coord("root", North)
                   [] p = <<"y">> -> Coord("y", Attr("axis", "Y"))
                   [] OTHER -> Coord(p[Len(p)], North)] :
             paths \in SUBSET {<<"">>, <<"lat">>, <<"grp", "lat">>, <<"y">>, <<"bnds">>, <<"x">>,
                               <<"root">>}}
            \ {<<>>}
    IN Few \cup Related \cup Many \cup Axes \cup Latitudes

InitSummary ==
    /\ pc = "loaded"
    /\ fs = EmptyStore
    /\ data = EmptyMap
    /\ \E arrays \in SummaryArrays :
          md = infer_dimensions(
                   [NewMetadata EXCEPT
                       !.variables =
                           [p \in DOMAIN arrays |->
                               VariableFromZarray(p, "root",
                                                  [shape |-> arrays[p].shape, fill_value |-> <<>>],
                                                  arrays[p].attributes)]],
                   InSomeOrder(DOMAIN arrays))
    /\ report = NewReport
    /\ stdout = <<>>
    /\ outcome = Running
    /\ arg = <<>>
    /\ ret = <<>>

\* A set in one order and in the reverse of it.
BothWays(S) ==
    {InSomeOrder(S), [i \in 1..Cardinality(S) |-> InSomeOrder(S)[Cardinality(S) + 1 - i]]}

\* let summary = cf::cf_summary(metadata);  The variables are enumerated in
\* any order when there are up to three, else in one order or its reverse, as
\* the dimensions are.  `arg` keeps the axis_candidates
\* cf_summary built on the way.
CfSummary ==
    /\ pc = "loaded"
    /\ \E order \in IF Cardinality(DOMAIN md.variables) <= 3 THEN Orders(DOMAIN md.variables)
                    ELSE BothWays(DOMAIN md.variables),
          dim_order \in BothWays(DOMAIN md.dimensions) :
          /\ ret' = cf_summary(md, order, dim_order)
          /\ arg' = axis_candidates(md, find_coordinate_variables(md, order))
    /\ pc' = "summarised"
    /\ UNCHANGED <<fs, data, md, report, stdout, outcome>>

SpecSummary == InitSummary /\ [][CfSummary]_vars

(***************************************************************************)
(* Specification SpecSlice: calls of inc_index, dec_index and set_index on *)
(* one SliceDimension.  `arg` is the dimension, `data` the last call (its  *)
(* name, its step or target, the dimension before it), `ret` its result.   *)
(***************************************************************************)
InitSlice ==
    /\ pc = "open"
    /\ fs = EmptyStore
    /\ md = NewMetadata
    /\ report = NewReport
    /\ stdout = <<>>
    /\ outcome = Running
    /\ \E max \in 0..MaxWord, index \in 0..MaxWord :
          /\ index <= max
          /\ arg = [name |-> "time", index |-> index, max |-> max]
    /\ data = [call |-> "", operand |-> 0, before |-> arg]
    /\ ret = <<>>

\* The call `call` with the step or target n, made on the dimension.
Called(call, n, result) ==
    /\ pc = "open"
    /\ arg' = result.dim
    /\ ret' = <<result.changed>>
    /\ data' = [call |-> call, operand |-> n, before |-> arg]
    /\ UNCHANGED <<pc, fs, md, report, stdout, outcome>>

IncIndex == \E step \in 0..MaxWord : Called("inc_index", step, inc_index(arg, step))

DecIndex == \E step \in 0..MaxWord : Called("dec_index", step, dec_index(arg, step))

SetIndex == \E idx \in 0..MaxWord : Called("set_index", idx, set_index(arg, idx))

NextSlice == IncIndex \/ DecIndex \/ SetIndex

SpecSlice == InitSlice /\ [][NextSlice]_vars

(***************************************************************************)
(* Properties of dimension inference, checked under SpecInfer.             *)
(***************************************************************************)
\* The (variable, axis) pairs of m whose resolved axis name is d.
AxisPairs(m, d) ==
    UNION {{<<p, i>> : i \in {j \in 1..Len(m.variables[p].shape) :
                                AxisName(extract_dimension_names(m.variables[p]), j) = d}}
           : p \in DOMAIN m.variables}

\* The names some axis of some variable of m resolves to.
ResolvedNames(m) ==
    UNION {{AxisName(extract_dimension_names(m.variables[p]), i) : i \in 1..Len(m.variables[p].shape)}
           : p \in DOMAIN m.variables}

RecordedSizes(m, d) == SizesOf(m.dimensions[d].appearances)

RecordedPaths(m, d) ==
    {m.dimensions[d].appearances[i][1] : i \in 1..Len(m.dimensions[d].appearances)}

\* C1: after infer_dimensions a dimension is unlimited exactly when one of its
\* recorded appearances has size 0 or its appearances carry two distinct sizes.
C1_UnlimitedIff ==
    pc = "inferred" =>
        \A d \in DOMAIN md.dimensions :
            md.dimensions[d].is_unlimited
                <=> (0 \in RecordedSizes(md, d) \/ Cardinality(RecordedSizes(md, d)) >= 2)

\* A name with sizes 100 and 200 in two variables is unlimited while another
\* name of the same store, with one nonzero size, is not.
C1_Witness ==
    /\ pc = "inferred"
    /\ \E d \in DOMAIN md.dimensions :
          /\ RecordedSizes(md, d) = {100, 200}
          /\ Cardinality(RecordedPaths(md, d)) = 2
          /\ md.dimensions[d].is_unlimited
    /\ \E d \in DOMAIN md.dimensions :
          /\ RecordedSizes(md, d) = {100}
          /\ ~md.dimensions[d].is_unlimited

\* C2: the appearances of d are exactly the (variable, axis) pairs resolving to
\* d, one entry each with that axis's size, and max_length is their maximum.
C2_AppearancesAndMax ==
    pc = "inferred" =>
        /\ DOMAIN md.dimensions = ResolvedNames(md)
        /\ \A d \in DOMAIN md.dimensions :
              LET app == md.dimensions[d].appearances
              IN /\ Len(app) = Cardinality(AxisPairs(md, d))
                 /\ \A p \in DOMAIN md.variables, s \in SizeValues :
                       Cardinality({i \in 1..Len(app) : app[i] = <<p, s>>})
                         = Cardinality({pi \in AxisPairs(md, d) :
                                          pi[1] = p /\ md.variables[p].shape[pi[2]] = s})
                 /\ md.dimensions[d].max_length \in RecordedSizes(md, d)
                 /\ \A s \in RecordedSizes(md, d) : s <= md.dimensions[d].max_length

\* Two variables declare 'time' with sizes 100 and 200: max_length 200,
\* unlimited, 2 appearances.
C2_Witness ==
    /\ pc = "inferred"
    /\ DOMAIN md.variables = InferPaths
    /\ \A p \in DOMAIN md.variables :
          /\ Len(md.variables[p].shape) = 1
          /\ md.variables[p].dimensions[1].name = "time"
    /\ {md.variables[p].shape[1] : p \in DOMAIN md.variables} = {100, 200}
    /\ md.dimensions["time"].max_length = 200
    /\ md.dimensions["time"].is_unlimited
    /\ Len(md.dimensions["time"].appearances) = 2

\* C3 as stated: a name used by one variable only, with one size, is never
\* unlimited, in the aggregate or in the variable's Dimension entries.
C3_SingleUseNeverUnlimited ==
    pc = "inferred" =>
        \A d \in DOMAIN md.dimensions :
            (Cardinality(RecordedPaths(md, d)) = 1 /\ Cardinality(RecordedSizes(md, d)) = 1)
                => /\ ~md.dimensions[d].is_unlimited
                   /\ \A p \in DOMAIN md.variables : \A i \in 1..Len(md.variables[p].dimensions) :
                         md.variables[p].dimensions[i].name = d
                            => ~md.variables[p].dimensions[i].is_unlimited

\* C3 amended: the same, for a name whose one size is not 0.
C3_SingleUseNonzeroNeverUnlimited ==
    pc = "inferred" =>
        \A d \in DOMAIN md.dimensions :
            (/\ Cardinality(RecordedPaths(md, d)) = 1
             /\ Cardinality(RecordedSizes(md, d)) = 1
             /\ 0 \notin RecordedSizes(md, d))
                => /\ ~md.dimensions[d].is_unlimited
                   /\ \A p \in DOMAIN md.variables : \A i \in 1..Len(md.variables[p].dimensions) :
                         md.variables[p].dimensions[i].name = d
                            => ~md.variables[p].dimensions[i].is_unlimited

\* One variable names both its axes 'time', both of size 100: two appearances,
\* one variable, one size, not unlimited.
C3_Witness ==
    /\ pc = "inferred"
    /\ "time" \in DOMAIN md.dimensions
    /\ Len(md.dimensions["time"].appearances) = 2
    /\ Cardinality(RecordedPaths(md, "time")) = 1
    /\ RecordedSizes(md, "time") = {100}
    /\ ~md.dimensions["time"].is_unlimited

(***************************************************************************)
(* Dimension names of a list with non-string entries (SpecInfer).          *)
(***************************************************************************)
\* The `_ARRAY_DIMENSIONS` list of a variable that has one as long as its shape.
FullNameLists(m) ==
    {p \in DOMAIN m.variables :
        /\ HasKey(m.variables[p].attributes, "_ARRAY_DIMENSIONS")
        /\ m.variables[p].attributes["_ARRAY_DIMENSIONS"].tag = "Array"
        /\ Len(m.variables[p].attributes["_ARRAY_DIMENSIONS"].items) = Len(m.variables[p].shape)}

\* C30: for a variable whose `_ARRAY_DIMENSIONS` list is as long as its
\* shape, axis i is named by the i-th entry when that entry is a string,
\* whatever the other entries are, and dim_<i> when it is not.
C30_NamesByPosition ==
    pc = "inferred" =>
        \A p \in FullNameLists(md) :
            LET items == md.variables[p].attributes["_ARRAY_DIMENSIONS"].items
            IN /\ Len(md.variables[p].dimensions) = Len(items)
               /\ \A i \in 1..Len(items) :
                     md.variables[p].dimensions[i].name
                        = (IF items[i].tag = "String" THEN items[i].str ELSE DimDefault(i - 1))

(***************************************************************************)
(* Properties of load_metadata, checked under SpecLoad.                    *)
(***************************************************************************)
\* C4: in loaded metadata every variable's dimensions list is parallel to its
\* shape; entry i has the resolved name of axis i, the variable's own shape[i]
\* as size and the unlimited flag of the aggregate stored under that name.
C4_DimensionsRewritten ==
    pc = "loaded" =>
        \A p \in DOMAIN md.variables :
            LET v == md.variables[p]
            IN /\ Len(v.dimensions) = Len(v.shape)
               /\ \A i \in 1..Len(v.shape) :
                     /\ v.dimensions[i].name = AxisName(extract_dimension_names(v), i)
                     /\ v.dimensions[i].size = v.shape[i]
                     /\ v.dimensions[i].name \in DOMAIN md.dimensions
                     /\ v.dimensions[i].is_unlimited
                          = md.dimensions[v.dimensions[i].name].is_unlimited

\* A store read through the consolidated index in which a variable's own size
\* (100) is below the max_length (200) of its unlimited dimension.
C4_Witness ==
    /\ pc = "loaded"
    /\ stdout = <<"Loaded consolidated metadata from .zmetadata">>
    /\ \E p \in DOMAIN md.variables :
          LET d == md.variables[p].dimensions[1]
          IN /\ d.size = 100
             /\ d.is_unlimited
             /\ md.dimensions[d.name].max_length = 200

\* The explicit dimension-name list of a variable: _ARRAY_DIMENSIONS, or the
\* dimension_names the v3 ingestor stored; <<>> when it has neither.
ExplicitNameList(v) ==
    IF HasKey(v.attributes, "_ARRAY_DIMENSIONS") /\ v.attributes["_ARRAY_DIMENSIONS"].tag = "Array"
    THEN v.attributes["_ARRAY_DIMENSIONS"].items
    ELSE IF HasKey(v.attributes, "dimension_names") /\ v.attributes["dimension_names"].tag = "Array"
    THEN v.attributes["dimension_names"].items
    ELSE <<>>

\* C5: a variable with an explicit, non-empty name list has its axes named from
\* that list, whichever format it was read from; dim_<i> is synthesized only
\* where there is no list entry to take.
C5_NamesFromExplicitList ==
    pc = "loaded" =>
        \A p \in DOMAIN md.variables :
            LET v == md.variables[p]
                names == ExplicitNameList(v)
            IN \A i \in 1..Len(v.shape) :
                  (i <= Len(names) /\ names[i].tag = "String")
                      => v.dimensions[i].name = names[i].str

(***************************************************************************)
(* The order of the ingestion strategies and malformed files (SpecLoad).   *)
(***************************************************************************)
\* What load_metadata returned, once it has.
LoadResult ==
    IF pc = "loaded" THEN Ok(md)
    ELSE Err(outcome.error.kind, outcome.error.names_file, outcome.error.file)

\* The lines load_metadata printed.
Printed == {stdout[i] : i \in 1..Len(stdout)}

\* The store without the files that no v3 document is read from.
ManifestsOnly(st) == [f \in {g \in DOMAIN st : g[Len(g)] = "zarr.json"} |-> st[f]]

\* The store without its consolidated index.
WithoutIndex(st) == [f \in DOMAIN st \ {<<".zmetadata">>} |-> st[f]]

\* C19: with a root zarr.json the result is that of the v3 ingestor, the same
\* as if the store held no other descriptor file, and has zarr_format 3 when
\* it is metadata; otherwise the result is that of the consolidated index
\* unless the index failed, and the directory scan runs exactly when the index
\* failed; without a .zmetadata file the result is one the directory scan
\* gives.
C19_StrategyOrder ==
    pc # "start" =>
        IF FileExists(fs, <<"zarr.json">>)
        THEN /\ LoadResult \in load_v3_metadata(ManifestsOnly(fs))
             /\ pc = "loaded" => md.zarr_format = 3
             /\ Printed \cap {"Loaded consolidated metadata from .zmetadata",
                              "Falling back to hierarchical scanning..."} = {}
        ELSE /\ "Falling back to hierarchical scanning..." \in Printed
                   <=> \E r \in load_consolidated_metadata(fs) : ~r.ok
             /\ "Falling back to hierarchical scanning..." \notin Printed
                   => /\ LoadResult \in load_consolidated_metadata(fs)
                      /\ stdout = <<"Loaded consolidated metadata from .zmetadata">>
             /\ "Falling back to hierarchical scanning..." \in Printed
                   => LoadResult \in load_hierarchical_metadata(WithoutIndex(fs))
             /\ ~FileExists(fs, <<".zmetadata">>)
                   => LoadResult \in load_hierarchical_metadata(fs)

\* A store holding a root zarr.json beside a well-formed .zmetadata that
\* describes other arrays: the arrays loaded are those of the v3 documents.
C19_Witness ==
    /\ pc = "loaded"
    /\ Parses(fs, <<"zarr.json">>, "v3root")
    /\ Parses(fs, <<".zmetadata">>, "consolidated")
    /\ md.zarr_format = 3
    /\ DOMAIN md.variables = {<<"time">>}
    /\ md.variables[<<"time">>].shape = <<100>>
    /\ HasKey(fs[<<".zmetadata">>].metadata, <<"grp", "time", ".zarray">>)
    /\ fs[<<".zmetadata">>].metadata[<<"grp", "time", ".zarray">>].shape = <<200>>

\* The files whose content the strategy that runs first parses: the root
\* zarr.json and, when it holds no consolidated metadata, the zarr.json of
\* the nodes; else .zmetadata; else the .zarray and .zattrs of the nodes and
\* the .zgroup of the groups below the root.
FilesParsed(st) ==
    IF FileExists(st, <<"zarr.json">>)
    THEN {<<"zarr.json">>}
         \cup (IF Parses(st, <<"zarr.json">>, "v3root")
                  /\ st[<<"zarr.json">>].consolidated_metadata = <<>>
               THEN {f \in DOMAIN st : f[Len(f)] = "zarr.json"} ELSE {})
    ELSE IF FileExists(st, <<".zmetadata">>) THEN {<<".zmetadata">>}
    ELSE {f \in DOMAIN st : f[Len(f)] \in {".zarray", ".zattrs"}
                            \/ (f[Len(f)] = ".zgroup" /\ Len(f) >= 2)}

\* C20: when a descriptor file the strategy parses holds malformed JSON,
\* load_metadata fails with an error naming that file.
C20_MalformedIsFatal ==
    pc # "start" =>
        \A f \in FilesParsed(fs) :
            fs[f] = Malformed
                => /\ outcome.status = "failure"
                   /\ outcome.error.names_file
                   /\ outcome.error.file = f

\* C21: when the directory scan is reached, load_metadata fails with 'No Zarr
\* arrays or groups found' exactly when the store holds no .zarray and no
\* .zgroup in a directory the scan visits, the root included.
C21_NothingFoundIffNoDescriptor ==
    (pc # "start" /\ "Falling back to hierarchical scanning..." \in Printed)
        => ((outcome.status = "failure"
             /\ outcome.error.kind = "No Zarr arrays or groups found")
            <=> \A f \in DOMAIN fs : f[Len(f)] \notin {".zarray", ".zgroup"})

(***************************************************************************)
(* Properties of resolve_related_var, checked under SpecResolve.           *)
(***************************************************************************)
\* The group a path lies directly in: <<>> for a root-level path.
GroupOf(path) == SubSeq(path, 1, Len(path) - 1)

\* The groups G for which a variable exists at '<G>/<name>'.
GroupsHolding(variables, name) ==
    {SubSeq(p, 1, Len(p) - Len(name)) : p \in {q \in DOMAIN variables :
                           /\ Len(q) > Len(name)
                           /\ SubSeq(q, Len(q) - Len(name) + 1, Len(q)) = name}}

\* C6: a name that is the path of a root-level variable resolves to it from
\* every source path; a name that exists only as '<group>/<name>' resolves, to
\* that variable, exactly when the source path lies directly in that group.
C6_RootAndGroup ==
    pc = "returned" =>
        /\ (Len(arg.name) = 1 /\ HasKey(md.variables, arg.name)) => ret = <<arg.name>>
        /\ \A G \in GroupsHolding(md.variables, arg.name) :
              (~HasKey(md.variables, arg.name) /\ GroupsHolding(md.variables, arg.name) = {G})
                  => /\ (ret # <<>>) <=> (Len(arg.source_path) >= 2 /\ GroupOf(arg.source_path) = G)
                     /\ ret # <<>> => ret = <<G \o arg.name>>

\* 'lat' exists only as 'grp/lat' and is resolved from 'grp/temp'.
C6_Witness ==
    /\ pc = "returned"
    /\ arg = [source_path |-> <<"grp", "temp">>, name |-> <<"lat">>]
    /\ <<"time">> \in DOMAIN md.variables
    /\ GroupsHolding(md.variables, arg.name) = {<<"grp">>}
    /\ ret = <<<<"grp", "lat">>>>


\* C26: a name that is a variable's path resolves to it, also when a variable
\* exists at '<parent>/<name>'; otherwise the name resolves to
\* '<parent>/<name>' of the source's immediate parent when that exists, and
\* to nothing else: no variable of an ancestor group, none whose path differs
\* in letter case.
C26_ExactThenParentOnly ==
    pc = "returned" =>
        LET sibling == GroupOf(arg.source_path) \o arg.name
        IN IF HasKey(md.variables, arg.name) THEN ret = <<arg.name>>
           ELSE IF Len(arg.source_path) >= 2 /\ HasKey(md.variables, sibling)
           THEN ret = <<sibling>>
           ELSE ret = <<>>

\* 'lat' exists at the root and beside the source 'grp/temp': the root one is
\* returned.
C26_Witness ==
    /\ pc = "returned"
    /\ arg = [source_path |-> <<"grp", "temp">>, name |-> <<"lat">>]
    /\ {<<"lat">>, <<"grp", "lat">>} \subseteq DOMAIN md.variables
    /\ ret = <<<<"lat">>>>
(***************************************************************************)
(* Properties of CfReport, checked under SpecReport.                       *)
(***************************************************************************)
\* The number of issues of a level in a report.
CountLevel(r, level) == Cardinality({i \in 1..Len(r.issues) : r.issues[i].level = level})

\* The number of calls of one kind made so far.
CountCalls(call) == Cardinality({i \in 1..Len(arg) : arg[i].call = call})

LevelOfCall(call) ==
    CASE call = "info" -> "Info" [] call = "warn" -> "Warning" [] call = "error" -> "Error"

\* C7: after any sequence of info / warn / error recordings the warning count
\* is the number of Warning issues (and of warn calls), the error count the
\* number of Error issues (and of error calls), so info calls change neither;
\* the issue list holds one issue per call, in call order; and has_errors()
\* holds exactly when an Error was recorded.
C7_CountsAndOrder ==
    pc = "recording" =>
        /\ report.warnings = CountLevel(report, "Warning")
        /\ report.warnings = CountCalls("warn")
        /\ report.errors = CountLevel(report, "Error")
        /\ report.errors = CountCalls("error")
        /\ Len(report.issues) = Len(arg)
        /\ \A i \in 1..Len(arg) :
              report.issues[i] = [level |-> LevelOfCall(arg[i].call), message |-> arg[i].msg]
        /\ has_errors(report) <=> (\E i \in 1..Len(arg) : arg[i].call = "error")

\* An info, a warn, an error and another info were recorded, in that order.
C7_Witness ==
    /\ pc = "recording"
    /\ Len(arg) = 4
    /\ <<arg[1].call, arg[2].call, arg[3].call, arg[4].call>> = <<"info", "warn", "error", "info">>
    /\ report.warnings = 1
    /\ report.errors = 1
    /\ has_errors(report)

(***************************************************************************)
(* Properties of the cf-check mode, checked under SpecCf.     *)
(***************************************************************************)
\* The positions of the issues of a level.
IssuesOfLevel(r, level) == {i \in 1..Len(r.issues) : r.issues[i].level = level}

\* The positions of the issues of some kinds about a subject.
IssuesAbout(r, kinds, subject) ==
    {i \in 1..Len(r.issues) :
        r.issues[i].message.kind \in kinds /\ r.issues[i].message.subject = subject}

\* What the run has printed once the report is out.
PrintedWithReport == <<"Loaded consolidated metadata from .zmetadata">> \o print(report)

\* C8: in cf-check mode, from the loaded metadata on, the report is always
\* produced (cf_check cannot fail) and printed before the run ends, and the
\* run ends in failure ('CF check failed') exactly when the report holds an
\* Error; with Warnings only it ends in success.
C8_PrintedThenFailsIffError ==
    /\ pc = "loaded" =>
          \A order \in Orders(DOMAIN md.variables), dim_order \in Orders(DOMAIN md.dimensions) :
             Len(cf_check(data, md, order, dim_order).issues) >= 1
    /\ pc \in {"loaded", "checked"} => (outcome = Running /\ Len(stdout) = 1)
    /\ pc = "printed" => (outcome = Running /\ stdout = PrintedWithReport)
    /\ pc = "done" =>
          /\ stdout = PrintedWithReport
          /\ IF IssuesOfLevel(report, "Error") # {}
             THEN outcome.status = "failure" /\ outcome.error.kind = "CF check failed"
             ELSE outcome = Succeeded

\* A run that printed a report with an Error and Warnings and failed.
C8_Witness ==
    /\ pc = "done"
    /\ outcome.status = "failure"
    /\ report.errors = 1
    /\ report.warnings >= 1
    /\ stdout[Len(stdout)] = <<"Summary", report.warnings, report.errors>>

\* A run that printed a report with Warnings and no Error and succeeded.
C8_WitnessWarningsOnly ==
    /\ pc = "done"
    /\ outcome = Succeeded
    /\ report.warnings >= 2
    /\ report.errors = 0

\* The coordinate variables of the loaded metadata.
CoordinatePaths ==
    {p \in DOMAIN md.variables :
        /\ Len(md.variables[p].dimensions) = 1
        /\ md.variables[p].name = md.variables[p].dimensions[1].name}

\* The coordinate variables whose sampled read fails.
FailedReads == {p \in CoordinatePaths : md.variables[p].shape[1] >= 2 /\ ~data[p].ok}

SampleKinds == {"monotonicity", "latitude out of bounds", "longitude out of bounds"}

\* The issues of a report other than those drawn from the samples of p.
WithoutSamples(r, p) ==
    SelectSeq(r.issues, LAMBDA issue :
        ~(/\ issue.message.kind \in SampleKinds \cup {"skipping monotonicity check"}
          /\ issue.message.subject = <<md.variables[p].name>>))

\* C9: when the sampled read of a coordinate variable fails, cf_check still
\* returns its report; the report holds exactly one Warning for the skipped
\* monotonicity check of that coordinate and no issue drawn from its samples;
\* and apart from these the report is the one the same check gives when the
\* read succeeds: the other coordinate variables and the later checks are
\* evaluated all the same.
C9_ReadFailureIsOneWarning ==
    pc = "checked" =>
        \A p \in FailedReads :
            LET name == md.variables[p].name
                skipped == IssuesAbout(report, {"skipping monotonicity check"}, <<name>>)
            IN /\ Cardinality(skipped) = 1
               /\ \A i \in skipped : report.issues[i].level = "Warning"
               /\ IssuesAbout(report, SampleKinds, <<name>>) = {}
               /\ report.errors + report.warnings <= Len(report.issues)
               /\ \A order \in Orders(DOMAIN md.variables),
                     dim_order \in Orders(DOMAIN md.dimensions) :
                     report = cf_check(data, md, order, dim_order)
                        => WithoutSamples(report, p)
                             = WithoutSamples(
                                   cf_check([data EXCEPT ![p].ok = TRUE], md, order, dim_order), p)

\* The read of 'time' failed while 'grp/lat' was read: 'time' has its one
\* Warning, 'lat' its monotonicity Info, and the coordinates check that comes
\* later reported the unresolved 'lon'.
C9_Witness ==
    /\ pc = "checked"
    /\ <<"time">> \in FailedReads
    /\ <<"grp", "lat">> \in CoordinatePaths \ FailedReads
    /\ Cardinality(IssuesAbout(report, {"skipping monotonicity check"}, <<"time">>)) = 1
    /\ Cardinality(IssuesAbout(report, {"monotonicity"}, <<"lat">>)) = 1
    /\ Cardinality(IssuesAbout(report, {"coordinates name not found"}, <<"grp", "temp">>)) = 1

\* The list attributes of a variable whose length is not that of its shape.
MismatchedLists(v) ==
    {a \in {"_ARRAY_DIMENSIONS", "dimension_names"} :
        /\ HasKey(v.attributes, a)
        /\ v.attributes[a].tag = "Array"
        /\ Len(v.attributes[a].items) # Len(v.shape)}

\* The positions of the issues of a level about a variable's name list length.
LengthIssues(r, level, p) ==
    IssuesAbout(r, {"name list length"}, p) \cap IssuesOfLevel(r, level)

\* C10 as stated: a coordinate variable with a name list of the wrong length
\* gets exactly one Error and no Warning for it; a variable without such a
\* list gets no Error.
C10_OneErrorPerVariable ==
    pc = "checked" =>
        /\ \A p \in CoordinatePaths :
              MismatchedLists(md.variables[p]) # {}
                 => /\ Cardinality(IssuesOfLevel(report, "Error")
                                   \cap IssuesAbout(report, {"name list length"}, p)) = 1
                    /\ LengthIssues(report, "Warning", p) = {}
        /\ \A p \in DOMAIN md.variables :
              MismatchedLists(md.variables[p]) = {}
                 => \A i \in IssuesOfLevel(report, "Error") : report.issues[i].message.subject # p

\* C10: a coordinate variable gets exactly one Error, and no Warning in its
\* place, for each of its name lists (_ARRAY_DIMENSIONS, dimension_names)
\* whose length is not that of its shape; a variable without such a list
\* gets no Error.
C10_OneErrorPerList ==
    pc = "checked" =>
        /\ \A p \in CoordinatePaths :
              /\ \A a \in MismatchedLists(md.variables[p]) :
                    Cardinality({i \in LengthIssues(report, "Error", p) :
                                    report.issues[i].message.detail = a}) = 1
              /\ Cardinality(LengthIssues(report, "Error", p))
                    = Cardinality(MismatchedLists(md.variables[p]))
              /\ LengthIssues(report, "Warning", p) = {}
        /\ \A p \in DOMAIN md.variables :
              MismatchedLists(md.variables[p]) = {}
                 => \A i \in IssuesOfLevel(report, "Error") : report.issues[i].message.subject # p

\* The coordinate variable 'time' carries only _ARRAY_DIMENSIONS, with two
\* names for its one axis, and got its one Error.
C10_Witness ==
    /\ pc = "checked"
    /\ <<"time">> \in CoordinatePaths
    /\ MismatchedLists(md.variables[<<"time">>]) = {"_ARRAY_DIMENSIONS"}
    /\ ~HasKey(md.variables[<<"time">>].attributes, "dimension_names")
    /\ Cardinality(LengthIssues(report, "Error", <<"time">>)) = 1
    /\ report.errors = 1

(***************************************************************************)
(* Properties of the individual checks of cf_check, checked under SpecCf.  *)
(***************************************************************************)
BoundsKinds ==
    {"bounds not found", "bounds with fewer than 2 dimensions",
     "bounds first size", "bounds second size"}

\* The coordinate variables with a string bounds attribute.
BoundedCoordinates ==
    {p \in CoordinatePaths :
        /\ HasKey(md.variables[p].attributes, "bounds")
        /\ md.variables[p].attributes["bounds"].tag = "String"}

\* The kinds of the issues of a report, in order.
KindsOf(issues) == [i \in 1..Len(issues) |-> issues[i].message.kind]

\* What the bounds check of coordinate p is to record.
BoundsIssuesDue(p) ==
    LET var == md.variables[p]
        resolved == resolve_related_var(md.variables, p,
                                        Segments(var.attributes["bounds"].str))
        shape == md.variables[resolved[1]].shape
    IN IF resolved = <<>> THEN <<"bounds not found">>
       ELSE IF Len(shape) < 2 THEN <<"bounds with fewer than 2 dimensions">>
       ELSE (IF shape[1] # var.shape[1] THEN <<"bounds first size">> ELSE <<>>)
            \o (IF shape[2] # 2 THEN <<"bounds second size">> ELSE <<>>)

\* C11: for a coordinate variable with a string bounds attribute the bounds
\* check records one Warning and nothing else when the reference does not
\* resolve, one Warning and nothing else when the bounds variable has fewer
\* than 2 axes, and otherwise a Warning iff the first size is not the
\* coordinate's length and, independently, a Warning iff the second size is
\* not 2; and these are the bounds issues of the report of the run.
C11_BoundsWarnings ==
    pc = "checked" =>
        \A p \in BoundedCoordinates :
            LET var == md.variables[p]
                own == check_bounds_variable(md, p, var, var.attributes["bounds"].str, NewReport)
            IN /\ KindsOf(own.issues) = BoundsIssuesDue(p)
               /\ \A i \in 1..Len(own.issues) : own.issues[i].level = "Warning"
               /\ own.warnings = Len(own.issues) /\ own.errors = 0
               /\ BoundedCoordinates = {p} =>
                     SelectSeq(report.issues, LAMBDA issue : issue.message.kind \in BoundsKinds)
                        = own.issues

\* 'grp/lat' of length 3 names the bounds 'lat_bnds', found beside it with
\* shape [2, 3]: both sizes are reported.
C11_Witness ==
    /\ pc = "checked"
    /\ BoundedCoordinates = {<<"grp", "lat">>}
    /\ HasKey(md.variables, <<"grp", "lat_bnds">>)
    /\ md.variables[<<"grp", "lat_bnds">>].shape = <<2, 3>>
    /\ KindsOf(SelectSeq(report.issues, LAMBDA issue : issue.message.kind \in BoundsKinds))
          = <<"bounds first size", "bounds second size">>

\* Whether coordinate p is a time coordinate.
TimeLike(p) ==
    LET var == md.variables[p]
    IN is_time_coordinate(Chars(var.dimensions[1].name), axis_char(attr_string(var, "axis")),
                          attr_string(var, "standard_name"), attr_string(var, "units"))

\* The direction of the values read for coordinate p.
DirectionRead(p) ==
    monotonic_direction(data[p].values, collect_missing_values_f64(md.variables[p]))

\* C14: a coordinate variable of length 2 or more whose read succeeds has
\* exactly one monotonicity issue: for a time coordinate Info iff the
\* direction is 'increasing', else Warning; for another coordinate Info for
\* 'increasing' or 'decreasing', else Warning.  A coordinate of length 0 or 1
\* has none.  'lat' with units degrees_north and values -90, 0, 90 has the
\* Info for 'increasing' and no latitude range Warning.
C14_OneMonotonicityIssue ==
    pc = "checked" =>
        \A p \in CoordinatePaths :
            LET var == md.variables[p]
                found == IssuesAbout(report, {"monotonicity"}, <<var.name>>)
                direction == DirectionRead(p)
                fine == IF TimeLike(p) THEN {<<"increasing">>}
                        ELSE {<<"increasing">>, <<"decreasing">>}
            IN /\ (var.shape[1] >= 2 /\ data[p].ok) =>
                     /\ Cardinality(found) = 1
                     /\ \A i \in found :
                           /\ report.issues[i].level
                                 = IF direction \in fine THEN "Info" ELSE "Warning"
                           /\ report.issues[i].message.detail
                                 = IF direction = <<>> THEN "not monotonic" ELSE direction[1]
               /\ var.shape[1] < 2 => found = {}
               /\ (/\ var.name = "lat"
                   /\ attr_string(var, "units") = <<Chars("degrees_north")>>
                   /\ data[p].ok
                   /\ data[p].values = <<F(-90), F(0), F(90)>>) =>
                     /\ \A i \in found :
                           /\ report.issues[i].level = "Info"
                           /\ report.issues[i].message.detail = "increasing"
                     /\ IssuesAbout(report, {"latitude out of bounds"}, <<"lat">>) = {}

\* 'time' read as 91, 2, 1 has the Warning for 'decreasing' while 'lat' read
\* as -90, 0, 90 has the Info for 'increasing'.
C14_Witness ==
    /\ pc = "checked"
    /\ {<<"time">>, <<"grp", "lat">>} \subseteq CoordinatePaths
    /\ data[<<"time">>] = [ok |-> TRUE, values |-> <<F(91), F(2), F(1)>>]
    /\ data[<<"grp", "lat">>] = [ok |-> TRUE, values |-> <<F(-90), F(0), F(90)>>]
    /\ \E i \in IssuesAbout(report, {"monotonicity"}, <<"time">>) :
          report.issues[i].level = "Warning" /\ report.issues[i].message.detail = "decreasing"
    /\ \E i \in IssuesAbout(report, {"monotonicity"}, <<"lat">>) :
          report.issues[i].level = "Info" /\ report.issues[i].message.detail = "increasing"

\* Units of the form '<unit> since <text>': lowercased, some ' since ' has
\* one of the unit words before it and a text with a digit after it.
SinceForm(units) ==
    LET u == Lowercase(units)
        since == Chars(" since ")
    IN \E i \in Occurrences(u, since) :
          /\ trim(SubSeq(u, 1, i - 1))
                \in {Chars(w) : w \in {"second", "seconds", "minute", "minutes", "hour", "hours",
                                       "day", "days", "month", "months", "year", "years"}}
          /\ \E j \in (i + Len(since))..Len(u) : is_ascii_digit(u[j])

\* C15: a time coordinate whose units attribute is a string has the Warning
\* for its time units iff the units are not of the form '<unit> since <text>',
\* the unit one of second(s), minute(s), hour(s), day(s), month(s), year(s) in
\* any case and the text holding a digit; 'days' alone has the Warning.  A
\* coordinate that is no time coordinate never has it.
C15_TimeUnitsWarning ==
    pc = "checked" =>
        \A p \in CoordinatePaths :
            LET var == md.variables[p]
                units == attr_string(var, "units")
                found == IssuesAbout(report, {"time units"}, display_var_path(p, var))
            IN /\ (TimeLike(p) /\ units # <<>>) =>
                     /\ found # {} <=> ~SinceForm(units[1])
                     /\ Cardinality(found) <= 1
                     /\ \A i \in found : report.issues[i].level = "Warning"
                     /\ units[1] = Chars("days") => found # {}
               /\ (~TimeLike(p) \/ units = <<>>) => found = {}

\* 'time' with units 'days' has the Warning, and so has 'grp/lat', a time
\* coordinate by its axis 'T', with units 'degrees_north'.
C15_Witness ==
    /\ pc = "checked"
    /\ {<<"time">>, <<"grp", "lat">>} \subseteq CoordinatePaths
    /\ md.variables[<<"time">>].attributes["units"].str = "days"
    /\ attr_string(md.variables[<<"grp", "lat">>], "axis") = <<Chars("T")>>
    /\ Cardinality(IssuesAbout(report, {"time units"}, <<"time">>)) = 1
    /\ Cardinality(IssuesAbout(report, {"time units"}, <<"grp", "lat">>)) = 1

\* Whether variable p carries a string attribute of that name.
HasString(p, key) ==
    HasKey(md.variables[p].attributes, key) /\ md.variables[p].attributes[key].tag = "String"

\* Whether a name cited by variable p resolves.
Resolves(p, name) == resolve_related_var(md.variables, p, Segments(name)) # <<>>

\* The positions of the issues of a kind about a subject that cite a detail.
IssuesCiting(r, kind, subject, detail) ==
    {i \in IssuesAbout(r, {kind}, subject) : r.issues[i].message.detail = detail}

\* C16: every reference that does not resolve has exactly one Warning, never
\* an Error: the string grid_mapping of any variable, each token of the
\* string coordinates of any variable, the string bounds of a coordinate
\* variable; a reference that resolves has no such Warning; the tokens and
\* variables after an unresolved reference are looked at all the same.
C16_OneWarningPerUnresolved ==
    pc = "checked" =>
        /\ \A p \in DOMAIN md.variables :
              LET var == md.variables[p]
                  label == display_var_path(p, var)
              IN /\ Cardinality(IssuesAbout(report, {"grid_mapping not found"}, label))
                       = IF HasString(p, "grid_mapping")
                            /\ ~Resolves(p, var.attributes["grid_mapping"].str)
                         THEN 1 ELSE 0
                 /\ LET tokens == IF HasString(p, "coordinates")
                                  THEN split_whitespace(Chars(var.attributes["coordinates"].str))
                                  ELSE <<>>
                    IN /\ \A k \in 1..Len(tokens) :
                             Cardinality(IssuesCiting(report, "coordinates name not found",
                                                      label, Spell(tokens[k])))
                                = IF Resolves(p, Spell(tokens[k])) THEN 0
                                  ELSE Cardinality({j \in 1..Len(tokens) : tokens[j] = tokens[k]})
                       /\ Cardinality(IssuesAbout(report, {"coordinates name not found"}, label))
                             = Cardinality({k \in 1..Len(tokens) : ~Resolves(p, Spell(tokens[k]))})
        /\ \A p \in CoordinatePaths :
              Cardinality(IssuesAbout(report, {"bounds not found"}, <<md.variables[p].name>>))
                 = IF HasString(p, "bounds")
                      /\ ~Resolves(p, md.variables[p].attributes["bounds"].str)
                   THEN 1 ELSE 0
        /\ \A i \in 1..Len(report.issues) :
              report.issues[i].message.kind
                    \in {"grid_mapping not found", "coordinates name not found", "bounds not found"}
                 => report.issues[i].level = "Warning"

\* 'grp/temp' cites the coordinates 'lon time lat': 'lon' and 'lat' are not
\* found and each has its Warning, 'time' between them is found; its grid
\* mapping 'crs' is found beside it.
C16_Witness ==
    /\ pc = "checked"
    /\ HasKey(md.variables, <<"grp", "temp">>)
    /\ HasKey(md.variables, <<"grp", "crs">>)
    /\ md.variables[<<"grp", "temp">>].attributes["coordinates"].str = "lon time lat"
    /\ Cardinality(IssuesCiting(report, "coordinates name not found", <<"grp", "temp">>, "lon")) = 1
    /\ Cardinality(IssuesCiting(report, "coordinates name not found", <<"grp", "temp">>, "lat")) = 1
    /\ IssuesAbout(report, {"grid_mapping not found"}, <<"grp", "temp">>) = {}

\* C17: the dimension coverage check records exactly one Warning for each
\* dimension whose max_length is not 2, whose name does not start with
\* 'dim_' and that no coordinate variable is named after, and nothing for
\* any other dimension.
C17_UncoveredDimensions ==
    pc = "checked" =>
        LET kind == "dimension without coordinate variable"
            found == {i \in 1..Len(report.issues) : report.issues[i].message.kind = kind}
        IN /\ \A d \in DOMAIN md.dimensions :
                 LET due == /\ md.dimensions[d].max_length # 2
                            /\ ~(Len(Chars(d)) >= 4
                                 /\ SubSeq(Chars(d), 1, 4) = <<"d", "i", "m", "_">>)
                            /\ ~\E p \in CoordinatePaths : md.variables[p].name = d
                 IN Cardinality(IssuesAbout(report, {kind}, <<d>>)) = IF due THEN 1 ELSE 0
           /\ \A i \in found :
                 /\ report.issues[i].level = "Warning"
                 /\ \E d \in DOMAIN md.dimensions : report.issues[i].message.subject = <<d>>

\* The bounds array has shape [3, 3]: its axis 'bnds' of 3 entries has the
\* Warning, 'lat' and 'time' have their coordinate variables.
C17_Witness ==
    /\ pc = "checked"
    /\ DOMAIN md.dimensions = {"time", "lat", "bnds"}
    /\ md.dimensions["bnds"].max_length = 3
    /\ {i \in 1..Len(report.issues) :
           report.issues[i].message.kind = "dimension without coordinate variable"}
          = IssuesAbout(report, {"dimension without coordinate variable"}, <<"bnds">>)
    /\ Cardinality(IssuesAbout(report, {"dimension without coordinate variable"}, <<"bnds">>)) = 1

(***************************************************************************)
(* Properties of monotonic_direction, checked under SpecMonotonic.         *)
(***************************************************************************)
\* A value the classification is to ignore: non-finite, or declared missing.
Ignored(v, missing_values) ==
    v \in {NaN, PosInf, NegInf} \/ \E i \in 1..Len(missing_values) : missing_values[i] = v

\* values with v put in before position i, and values without position i.
InsertAt(values, i, v) == SubSeq(values, 1, i - 1) \o <<v>> \o SubSeq(values, i, Len(values))

RemoveAt(values, i) == SubSeq(values, 1, i - 1) \o SubSeq(values, i + 1, Len(values))

\* C12: the classification is the same after an ignored value (NaN, +inf,
\* -inf or a value of missing) is inserted at any position, after any
\* ignored value is removed, and after all of them are removed.
C12_IgnoredValuesInvisible ==
    pc = "returned" =>
        /\ \A i \in 1..(Len(arg.values) + 1) :
              \A v \in {NaN, PosInf, NegInf, F(9)} :
                 Ignored(v, arg.missing_values) =>
                    monotonic_direction(InsertAt(arg.values, i, v), arg.missing_values) = ret
        /\ \A i \in 1..Len(arg.values) :
              Ignored(arg.values[i], arg.missing_values) =>
                 monotonic_direction(RemoveAt(arg.values, i), arg.missing_values) = ret
        /\ monotonic_direction(
               SelectSeq(arg.values, LAMBDA v : ~Ignored(v, arg.missing_values)),
               arg.missing_values) = ret

\* 0, NaN, 9 (declared missing), 1 is classified like 0, 1.
C12_Witness ==
    /\ pc = "returned"
    /\ arg = [values |-> <<F(0), NaN, F(9), F(1)>>, missing_values |-> <<F(9)>>]
    /\ ret = <<"increasing">>

\* The finite, non-missing samples of the call, as numbers.
Kept ==
    LET kept == SelectSeq(arg.values, LAMBDA v : ~Ignored(v, arg.missing_values))
    IN [i \in 1..Len(kept) |-> kept[i].val]

\* C13: over the kept samples the result is 'increasing' iff no sample is
\* below its predecessor and one is above, 'decreasing' iff none is above its
\* predecessor and one is below, 'constant' iff there are two samples or more
\* and none differs from its predecessor, and None otherwise: the scan that
\* returns early gives what these definitions give over the whole sequence.
C13_Classification ==
    pc = "returned" =>
        LET steps == 1..(Len(Kept) - 1)
            rises == {i \in steps : Kept[i + 1] > Kept[i]}
            falls == {i \in steps : Kept[i + 1] < Kept[i]}
        IN /\ ret = <<"increasing">> <=> (falls = {} /\ rises # {})
           /\ ret = <<"decreasing">> <=> (rises = {} /\ falls # {})
           /\ ret = <<"constant">> <=> (Len(Kept) >= 2 /\ rises = {} /\ falls = {})
           /\ ret = <<>> <=> (Len(Kept) < 2 \/ (rises # {} /\ falls # {}))
           /\ ret \in {<<"increasing">>, <<"decreasing">>, <<"constant">>, <<>>}

\* 0, 1, 0, 0: the scan returns None at the second window, before the last.
C13_Witness ==
    /\ pc = "returned"
    /\ Kept = <<0, 1, 0, 0>>
    /\ ret = <<>>

(***************************************************************************)
(* The closing Warning of the coordinate check (SpecCf).                   *)
(***************************************************************************)
\* The positions of the 'no coordinate variables detected' issues.
NoneDetected == {i \in 1..Len(report.issues) : report.issues[i].message.kind = "no coordinate variables"}

\* What the checks that run after check_coordinate_variables record.
LaterKinds ==
    {"dimension without coordinate variable", "grid_mapping not found", "grid_mapping found",
     "grid_mapping_name missing", "grid_mapping_name not a string", "coordinates name not found"}

\* C27 as stated: without a coordinate variable and with a dimension the
\* report holds one 'no coordinate variables detected' Warning, as its last
\* issue; else it holds none.
C27_ClosingWarningIsLast ==
    pc \in {"checked", "printed", "done"} =>
        IF CoordinatePaths = {} /\ DOMAIN md.dimensions # {}
        THEN /\ NoneDetected = {Len(report.issues)}
             /\ Len(report.issues) >= 1
             /\ report.issues[Len(report.issues)].level = "Warning"
        ELSE NoneDetected = {}

\* C27: without a coordinate variable and with a dimension the report holds
\* exactly one 'no coordinate variables detected' Warning; the issues before
\* it are those of the checks of the global attributes and of the dimension
\* names, the issues after it those of the dimension coverage, grid mapping
\* and coordinates attribute checks.  With a coordinate variable, or with no
\* dimension, the report holds no such Warning.
C27_ClosingWarningOnce ==
    pc \in {"checked", "printed", "done"} =>
        IF CoordinatePaths = {} /\ DOMAIN md.dimensions # {}
        THEN /\ Cardinality(NoneDetected) = 1
             /\ \A i \in NoneDetected :
                   /\ report.issues[i].level = "Warning"
                   /\ \A j \in 1..Len(report.issues) :
                         /\ j < i => report.issues[j].message.kind \notin LaterKinds
                         /\ j > i => report.issues[j].message.kind \in LaterKinds
        ELSE NoneDetected = {}

\* The Warning is followed by that of a dimension without coordinate
\* variable.
C27_Witness ==
    /\ pc = "checked"
    /\ CoordinatePaths = {}
    /\ \E i \in NoneDetected :
          /\ i < Len(report.issues)
          /\ report.issues[i + 1].message.kind = "dimension without coordinate variable"

(***************************************************************************)
(* Claims about the candidate data variables (SpecSummary).                *)
(***************************************************************************)
\* The element count of a shape: the product of its entries, held at
\* MaxElements.
ElementCount(shape) ==
    LET RECURSIVE product(_)
        product(k) == IF k > Len(shape) THEN 1 ELSE shape[k] * product(k + 1)
    IN IF product(1) > MaxElements THEN MaxElements ELSE product(1)

\* The variables resolved as the bounds of a coordinate variable.
BoundsOfCoordinates ==
    {resolve_related_var(md.variables, p, Segments(md.variables[p].attributes["bounds"].str))[1] :
        p \in {q \in BoundedCoordinates : Resolves(q, md.variables[q].attributes["bounds"].str)}}

\* The variables that qualify as candidate data variables.
Qualifying ==
    {p \in DOMAIN md.variables :
        /\ p \notin CoordinatePaths
        /\ p \notin BoundsOfCoordinates
        /\ ~HasKey(md.variables[p].attributes, "grid_mapping_name")
        /\ ElementCount(md.variables[p].shape) > 0}

\* The path a variable is listed by: 'root' for the array at the store root.
Shown(p) == display_var_path(p, md.variables[p])

\* Whether the candidate data variables hold the first CandidateCap qualifying variables of the
\* order: element count descending, then number of axes descending, then
\* Label ascending.
RankedBy(Label(_)) ==
    LET Precedes(p, q) ==
            LET np == ElementCount(md.variables[p].shape)
                nq == ElementCount(md.variables[q].shape)
                dp == Len(md.variables[p].shape)
                dq == Len(md.variables[q].shape)
            IN \/ np > nq
               \/ np = nq /\ dp > dq
               \/ np = nq /\ dp = dq /\ StringLess(PathChars(Label(p)), PathChars(Label(q)))
        listed(i) == CHOOSE p \in DOMAIN md.variables : Shown(p) = ret.candidate_data_vars[i]
    IN /\ Len(ret.candidate_data_vars) = (IF Cardinality(Qualifying) < CandidateCap THEN Cardinality(Qualifying)
                      ELSE CandidateCap)
       /\ \A i \in 1..Len(ret.candidate_data_vars) : \E p \in Qualifying : Shown(p) = ret.candidate_data_vars[i]
       /\ \A i, j \in 1..Len(ret.candidate_data_vars) : i < j => ret.candidate_data_vars[i] # ret.candidate_data_vars[j] /\ ~Precedes(listed(j), listed(i))
       /\ \A q \in Qualifying :
             (\A i \in 1..Len(ret.candidate_data_vars) : ret.candidate_data_vars[i] # Shown(q))
                => \A i \in 1..Len(ret.candidate_data_vars) : ~Precedes(q, listed(i))

\* C18 as stated: the candidate data variables are the first 10 qualifying
\* variables by element count descending, then number of axes descending,
\* then the variable's path ascending.
C18_RankedByPath == pc = "summarised" => RankedBy(LAMBDA p : p)

\* C18: the candidate data variables hold no coordinate variable, no bounds
\* of a coordinate variable, no variable carrying grid_mapping_name and no
\* variable of element count 0; they are sorted by element count descending,
\* then number of axes descending, then the listed path ascending, where the
\* array at the store root is listed and ordered as 'root'; and they are the
\* first 10 entries of that order, or all of them when fewer qualify.
C18_RankedByShownPath == pc = "summarised" => RankedBy(Shown)

\* More than 10 variables qualify beside a coordinate variable and an empty
\* array, and the root array is listed after 'lat', of the same element
\* count and number of axes.
C18_Witness ==
    /\ pc = "summarised"
    /\ Cardinality(Qualifying) > CandidateCap
    /\ Len(ret.candidate_data_vars) = CandidateCap
    /\ CoordinatePaths # {}
    /\ \E p \in DOMAIN md.variables : ElementCount(md.variables[p].shape) = 0
    /\ <<"">> \in Qualifying /\ <<"lat">> \in Qualifying
    /\ md.variables[<<"">>].shape = md.variables[<<"lat">>].shape
    /\ \E i, j \in 1..Len(ret.candidate_data_vars) : i < j /\ ret.candidate_data_vars[i] = <<"lat">> /\ ret.candidate_data_vars[j] = <<"root">>

(***************************************************************************)
(* Claims about the axes and the suggested dimensions (SpecSummary).       *)
(***************************************************************************)
\* The names a side may take: the dimension of the axis entry when the axes
\* hold one for the letter; else the first preferred name that is a store
\* dimension; else the store dimensions equal, letter case aside, to the
\* first preferred name that has such a dimension; else none.
SideNames(axis, preferred) ==
    LET entries == {i \in 1..Len(ret.axes) : ret.axes[i].axis = axis}
        same(key, want) == Lowercase(Chars(key)) = Lowercase(Chars(want))
        exact == {i \in 1..Len(preferred) : preferred[i] \in DOMAIN md.dimensions}
        folded == {i \in 1..Len(preferred) :
                      \E key \in DOMAIN md.dimensions : same(key, preferred[i])}
        first(S) == CHOOSE i \in S : \A j \in S : i <= j
    IN IF entries # {} THEN {ret.axes[i].dim : i \in entries}
       ELSE IF exact # {} THEN {preferred[first(exact)]}
       ELSE IF folded # {}
       THEN {key \in DOMAIN md.dimensions : same(key, preferred[first(folded)])}
       ELSE {}

\* C22: suggested_plot_dims is Some((y, x)) exactly when a Y-side and an
\* X-side name are both found, y and x being such names; each side is the
\* dimension of the chosen axis entry or else the first preferred name (Y: lat,
\* latitude, y; X: lon, longitude, x) matching a store dimension, exactly
\* before case-insensitively.
C22_PlotDims ==
    pc = "summarised" =>
        LET ys == SideNames("Y", <<"lat", "latitude", "y">>)
            xs == SideNames("X", <<"lon", "longitude", "x">>)
        IN IF ys # {} /\ xs # {}
           THEN /\ Len(ret.suggested_plot_dims) = 1
                /\ ret.suggested_plot_dims[1][1] \in ys
                /\ ret.suggested_plot_dims[1][2] \in xs
           ELSE ret.suggested_plot_dims = <<>>

\* The Y side is the dimension of the chosen latitude coordinate while the X
\* side is a store dimension matching 'lon' case-insensitively only.
C22_Witness ==
    /\ pc = "summarised"
    /\ ret.suggested_plot_dims = <<<<"lat", "LON">>>>
    /\ \E i \in 1..Len(ret.axes) : ret.axes[i].axis = "Y" /\ ret.axes[i].dim = "lat"
    /\ \A i \in 1..Len(ret.axes) : ret.axes[i].axis # "X"
    /\ "lon" \notin DOMAIN md.dimensions

\* C23: suggested_slice_dims has at most two entries and no duplicates, each
\* the T-side or the Z-side name, a T-side name before a Z-side name, and
\* holds neither plot dimension when suggested_plot_dims is Some((y, x)).
C23_SliceDims ==
    pc = "summarised" =>
        LET dims == ret.suggested_slice_dims
            ts == SideNames("T", <<"time", "t">>)
            zs == SideNames("Z", <<"lev", "level", "plev", "depth", "z">>)
        IN /\ Len(dims) <= 2
           /\ \A i, j \in 1..Len(dims) : i # j => dims[i] # dims[j]
           /\ \A i \in 1..Len(dims) : dims[i] \in ts \cup zs
           /\ Len(dims) = 2 => dims[1] \in ts /\ dims[2] \in zs
           /\ ret.suggested_plot_dims # <<>>
                 => \A i \in 1..Len(dims) :
                       /\ dims[i] # ret.suggested_plot_dims[1][1]
                       /\ dims[i] # ret.suggested_plot_dims[1][2]

\* The dimension 't' is the T-side name and the Y plot dimension: the slice
\* dimensions are left with the Z-side name.
C23_Witness ==
    /\ pc = "summarised"
    /\ ret.suggested_plot_dims = <<<<"t", "lon">>>>
    /\ SideNames("T", <<"time", "t">>) = {"t"}
    /\ SideNames("Z", <<"lev", "level", "plev", "depth", "z">>) = {"z"}
    /\ ret.suggested_slice_dims = <<"z">>

\* The letter the rules give coordinate variable p: the first that matches of
\* time, vertical, latitude, longitude; else the uppercased first letter of
\* its string axis attribute; else '?'.
RuleLetter(p) ==
    LET v == md.variables[p]
        text(key) == IF HasString(p, key) THEN <<Chars(v.attributes[key].str)>> ELSE <<>>
        letter == IF text("axis") = <<>> \/ text("axis")[1] = <<>> THEN <<>>
                  ELSE <<to_ascii_uppercase(text("axis")[1][1])>>
    IN CASE is_time_coordinate(Chars(v.name), letter, text("standard_name"), text("units"))
              -> "T"
         [] OTHER ->
            CASE is_vertical_coordinate(Chars(v.name), letter, text("standard_name")) -> "Z"
              [] OTHER ->
                 CASE is_latitude_coordinate(text("standard_name"), text("units")) -> "Y"
                   [] OTHER ->
                      CASE is_longitude_coordinate(text("standard_name"), text("units")) -> "X"
                        [] OTHER -> IF letter = <<>> THEN "?" ELSE letter[1]

\* C24: cf_summary tags each coordinate variable, and nothing else, with the
\* letter of the first matching rule: time 'T', vertical 'Z', latitude 'Y',
\* longitude 'X', else the uppercased first letter of its string axis
\* attribute, else '?'.
C24_AxisTags ==
    pc = "summarised" =>
        /\ Len(arg) = Cardinality(CoordinatePaths)
        /\ \A p \in CoordinatePaths :
              \E i \in 1..Len(arg) :
                  /\ arg[i].coord_var = Shown(p)
                  /\ arg[i].axis = RuleLetter(p)
                  /\ arg[i].dim = md.variables[p].name

\* 'bnds' with axis 'x' and no rule matching is tagged 'X'; 'lev' with units
\* degrees_north matches the vertical rule before the latitude rule.
C24_Witness ==
    /\ pc = "summarised"
    /\ DOMAIN md.variables = {<<"bnds">>, <<"lev">>}
    /\ HasString(<<"bnds">>, "axis") /\ md.variables[<<"bnds">>].attributes["axis"].str = "x"
    /\ HasString(<<"lev">>, "units")
    /\ \E i, j \in 1..Len(arg) :
          /\ arg[i] = [axis |-> "X", dim |-> "bnds", coord_var |-> <<"bnds">>]
          /\ arg[j] = [axis |-> "Z", dim |-> "lev", coord_var |-> <<"lev">>]

\* Whether the axes hold, in the order T, Z, Y, X, one entry for each of
\* these letters that some coordinate variable is tagged with and no other
\* entry, the entry of a letter being that of a tagged variable which none
\* precedes in rank (name preference, number of '/' in Label, Label), and all
\* such variables giving the same entry.
AxesRankedBy(Label(_)) ==
    LET Letters4 == <<"T", "Z", "Y", "X">>
        Tagged(letter) == {p \in CoordinatePaths : RuleLetter(p) = letter}
        Entry(p) == [axis |-> RuleLetter(p), dim |-> md.variables[p].name, coord_var |-> Shown(p)]
        Precedes(p, q) ==
            LET a == axis_preference(RuleLetter(p), md.variables[p].name)
                b == axis_preference(RuleLetter(q), md.variables[q].name)
            IN \/ a < b
               \/ a = b /\ Len(Label(p)) < Len(Label(q))
               \/ a = b /\ Len(Label(p)) = Len(Label(q))
                  /\ StringLess(PathChars(Label(p)), PathChars(Label(q)))
        Least(letter) == {p \in Tagged(letter) : \A q \in Tagged(letter) : ~Precedes(q, p)}
        present == SelectSeq(Letters4, LAMBDA letter : Tagged(letter) # {})
    IN /\ Len(ret.axes) = Len(present)
       /\ \A i \in 1..Len(present) :
             /\ ret.axes[i].axis = present[i]
             /\ \E p \in Least(present[i]) : ret.axes[i] = Entry(p)
             /\ \A p, q \in Least(present[i]) : Entry(p) = Entry(q)

\* C25 as stated: the rank's last two components are taken from the
\* variable's path.
C25_AxesRankedByPath == pc = "summarised" => AxesRankedBy(LAMBDA p : p)

\* C25: the axes list has at most one entry per axis, in the order T, Z, Y,
\* X; the entry of an axis is the candidate of smallest rank (name
\* preference, number of '/' in the listed path, listed path) among the
\* coordinate variables tagged with it, the array at the store root being
\* listed as 'root'; the entry does not depend on the enumeration order.
C25_AxesRankedByShownPath == pc = "summarised" => AxesRankedBy(Shown)

\* The root array, 'bnds' and 'x' are latitudes of the same name preference
\* and depth: 'bnds' is the Y axis, before 'root'.
C25_Witness ==
    /\ pc = "summarised"
    /\ DOMAIN md.variables = {<<"">>, <<"bnds">>, <<"x">>}
    /\ \A p \in DOMAIN md.variables : p \in CoordinatePaths /\ RuleLetter(p) = "Y"
    /\ ret.axes = <<[axis |-> "Y", dim |-> "bnds", coord_var |-> <<"bnds">>]>>

\* C29: when suggested_plot_dims is Some((y, x)), y and x are different
\* dimension names.
C29_PlotDimsDiffer ==
    (pc = "summarised" /\ ret.suggested_plot_dims # <<>>)
        => ret.suggested_plot_dims[1][1] # ret.suggested_plot_dims[1][2]

(***************************************************************************)
(* Claims about slice navigation (SpecSlice).                              *)
(***************************************************************************)
\* C28: after any calls of inc_index, dec_index and set_index on a dimension
\* that started with index <= max, 0 <= index <= max holds and max is what
\* it was; an increment or a target beyond max leaves index at max, a
\* decrement below 0 leaves it at 0; the call returned true exactly when it
\* changed index.
C28_IndexStaysInRange ==
    /\ 0 <= arg.index /\ arg.index <= arg.max
    /\ arg.max = data.before.max
    /\ arg.name = data.before.name
    /\ data.call # "" =>
          /\ ret = <<arg.index # data.before.index>>
          /\ data.call = "inc_index" =>
                arg.index = (IF data.before.index + data.operand > arg.max THEN arg.max
                             ELSE data.before.index + data.operand)
          /\ data.call = "dec_index" =>
                arg.index = (IF data.before.index < data.operand THEN 0
                             ELSE data.before.index - data.operand)
          /\ data.call = "set_index" =>
                arg.index = (IF data.operand > arg.max THEN arg.max ELSE data.operand)

\* An increment that would pass max leaves index at max and returns true.
C28_Witness ==
    /\ data.call = "inc_index"
    /\ data.before.index < arg.max
    /\ data.before.index + data.operand > arg.max
    /\ arg.index = arg.max
    /\ ret = <<TRUE>>

====
